---- MODULE Spec2Model ----
(***************************************************************************)
(* Model of the recipe normalizer of anylist-mcp (recipe-normalizer.js):   *)
(* the dispatcher normalizeRecipe, the page fetch with its redirect chain  *)
(* and per-request timeout, the JSON-LD and heuristic extractors, the text *)
(* segmenter and the object normalizer.                                    *)
(*                                                                         *)
(* Strings are sequences of tokens.  A token is one character ("x", " ",   *)
(* "<", ">", "&", "-", ...) or an indivisible run of characters that the   *)
(* code's regular expressions treat as a unit ("amp;", "lt;", "#1;", a     *)
(* word of 12 letters, a run of 200 letters).  JavaScript values carry a   *)
(* type tag t: "undef", "null", "str", "arr", "obj".                       *)
(***************************************************************************)
EXTENDS Integers, Sequences, FiniteSets, TLC

\* ---------------------------------------------------------------- bounds
MaxLen == 3
MaxReqs == 3
MaxBlocks == 2
MaxLines == 3
MaxCalls == 2
MaxItems == 3
MaxEvents == 3
MaxClock == 1

\* ------------------------------------------------------- JavaScript values
Undef == [t |-> "undef"]
Null == [t |-> "null"]
Str(s) == [t |-> "str", v |-> s]
Arr(a) == [t |-> "arr", v |-> a]

\* a multi-line string, given by its lines (the pieces between newlines)
Text(lines) == [t |-> "text", lines |-> lines]

\* JavaScript truthiness of a value: undefined, null and "" are falsy;
\* non-empty strings, arrays and objects are truthy.
Truthy(x) ==
  CASE x.t = "undef" -> FALSE
    [] x.t = "null" -> FALSE
    [] x.t = "str" -> x.v # <<>>
    [] x.t = "text" -> x.lines # <<<<>>>>
    [] OTHER -> TRUE

\* a || b
Or(a, b) == IF Truthy(a) THEN a ELSE b

\* ------------------------------------------------------------ characters
WS == {" ", "\n"}
NumEnt == {"#39;", "#1;"}

\* number of characters a token stands for
CharLen(c) ==
  CASE c = "w12" -> 12
    [] c = "L200" -> 200
    [] c = "ING" -> 11
    [] c = "STEPS" -> 12
    [] c \in {"amp;", "#39;"} -> 4
    [] c \in {"lt;", "gt;", "#1;"} -> 3
    [] c = "quot;" -> 5
    [] c = "nbsp;" -> 5
    [] OTHER -> 1

RECURSIVE StrLen(_)
StrLen(s) == IF s = <<>> THEN 0 ELSE CharLen(Head(s)) + StrLen(Tail(s))

IsPrefix(p, s) == Len(p) <= Len(s) /\ SubSeq(s, 1, Len(p)) = p

Drop(s, n) == SubSeq(s, n + 1, Len(s))

\* String.prototype.replace(/pat/g, rep) for a literal pattern
RECURSIVE ReplaceAll(_, _, _)
ReplaceAll(s, pat, rep) ==
  IF s = <<>> THEN <<>>
  ELSE IF IsPrefix(pat, s) THEN rep \o ReplaceAll(Drop(s, Len(pat)), pat, rep)
  ELSE <<Head(s)>> \o ReplaceAll(Tail(s), pat, rep)

\* replace(/&#\d+;/g, '')
RECURSIVE StripNumEnt(_)
StripNumEnt(s) ==
  IF s = <<>> THEN <<>>
  ELSE IF Len(s) >= 2 /\ s[1] = "&" /\ s[2] \in NumEnt THEN StripNumEnt(Drop(s, 2))
  ELSE <<Head(s)>> \o StripNumEnt(Tail(s))

\* index of the first ">" of s at or after position i, 0 if there is none
RECURSIVE FirstGt(_, _)
FirstGt(s, i) ==
  IF i > Len(s) THEN 0 ELSE IF s[i] = ">" THEN i ELSE FirstGt(s, i + 1)

\* replace(/<[^>]+>/g, rep): a "<", at least one character that is not ">",
\* then the first ">" that follows
RECURSIVE ReplaceTags(_, _)
ReplaceTags(s, rep) ==
  IF s = <<>> THEN <<>>
  ELSE IF s[1] = "<" /\ Len(s) >= 3 /\ s[2] # ">" /\ FirstGt(s, 3) # 0
       THEN rep \o ReplaceTags(Drop(s, FirstGt(s, 3)), rep)
  ELSE <<Head(s)>> \o ReplaceTags(Tail(s), rep)

\* replace(/\s+/g, ' ')
RECURSIVE CollapseWs(_)
CollapseWs(s) ==
  IF s = <<>> THEN <<>>
  ELSE IF s[1] \in WS
       THEN IF Len(s) >= 2 /\ s[2] \in WS THEN CollapseWs(Tail(s))
            ELSE <<" ">> \o CollapseWs(Tail(s))
  ELSE <<Head(s)>> \o CollapseWs(Tail(s))

RECURSIVE TrimLeft(_)
TrimLeft(s) == IF s # <<>> /\ Head(s) \in WS THEN TrimLeft(Tail(s)) ELSE s

RECURSIVE TrimRight(_)
TrimRight(s) ==
  IF s # <<>> /\ s[Len(s)] \in WS THEN TrimRight(SubSeq(s, 1, Len(s) - 1)) ELSE s

\* String.prototype.trim
Trim(s) == TrimRight(TrimLeft(s))

stripHtml(s) == CollapseWs(ReplaceTags(s, <<" ">>))

\* the six literal entity replacements of cleanText, in the order of the
\* source: &amp; &lt; &gt; &quot; &#39; &nbsp;
DecodeEntities(s) ==
  ReplaceAll(
    ReplaceAll(
      ReplaceAll(
        ReplaceAll(
          ReplaceAll(
            ReplaceAll(s, <<"&", "amp;">>, <<"&">>),
            <<"&", "lt;">>, <<"<">>),
          <<"&", "gt;">>, <<">">>),
        <<"&", "quot;">>, <<"\"">>),
      <<"&", "#39;">>, <<"'">>),
    <<"&", "nbsp;">>, <<" ">>)

\* cleanText on the characters of a non-empty string: the entity
\* replacements, then the numeric entities, the tags, the whitespace, trim
CleanChars(s) == Trim(CollapseWs(ReplaceTags(StripNumEnt(DecodeEntities(s)), <<>>)))

\* cleanText(text): '' for a falsy argument, the cleaned characters of a string
cleanText(x) == IF ~Truthy(x) THEN <<>> ELSE CleanChars(x.v)

\* String(x): a string is itself, undefined and null print their names
String(x) ==
  CASE x.t = "str" -> x
    [] x.t = "undef" -> Str(<<"undefined">>)
    [] x.t = "null" -> Str(<<"null">>)
    [] OTHER -> Str(<<"[object]">>)

\* o.f: undefined for a property the object does not carry
Get(o, f) == IF f \in DOMAIN o THEN o[f] ELSE Undef

\* Array.isArray
IsArray(x) == x.t = "arr"

\* s || null for a string result s
StrOrNull(s) == IF s = <<>> THEN Null ELSE Str(s)

\* s || d for string results
StrOr(s, d) == IF s = <<>> THEN d ELSE s

\* a.map(f) is written [i \in 1..Len(a) |-> f(a[i])]; a.filter(Boolean) on
\* strings keeps the non-empty ones
NonEmptyStr(x) == x.v # <<>>
HasRaw(i) == i.rawIngredient.v # <<>>

\* parts.join(' ')
RECURSIVE Join(_)
Join(parts) ==
  IF parts = <<>> THEN <<>>
  ELSE IF Len(parts) = 1 THEN parts[1].v
  ELSE parts[1].v \o <<" ">> \o Join(Tail(parts))

Untitled == <<"Untitled Recipe">>

RawIng(s) == [t |-> "obj", rawIngredient |-> Str(s)]

\* ------------------------------------------------------ object normalizer
\* one entry of recipe.ingredients
NormIngredient(i) ==
  IF i.t = "str" THEN RawIng(cleanText(i))
  ELSE IF Truthy(Get(i, "rawIngredient")) THEN RawIng(cleanText(Get(i, "rawIngredient")))
  ELSE LET all == <<Get(i, "quantity"), Get(i, "name"), Get(i, "note")>>
           parts == SelectSeq(all, Truthy)
           strs == [k \in 1..Len(parts) |-> String(parts[k])]
       IN RawIng(cleanText(Str(Join(strs))))

\* StepsField looking at instructions first
StepsField_InstructionsFirst(recipe) ==
  Or(Or(Get(recipe, "instructions"), Get(recipe, "steps")), Get(recipe, "preparationSteps"))

\* recipe.preparationSteps || recipe.steps || recipe.instructions
StepsField(recipe) ==
  Or(Or(Get(recipe, "preparationSteps"), Get(recipe, "steps")), Get(recipe, "instructions"))

normalizeFromObject(recipe) ==
  LET name == StrOr(cleanText(Get(recipe, "name")), Untitled)
      ri == Get(recipe, "ingredients")
      ingredients ==
        IF IsArray(ri)
        THEN SelectSeq([k \in 1..Len(ri.v) |-> NormIngredient(ri.v[k])], HasRaw)
        ELSE <<>>
      st == StepsField(recipe)
      preparationSteps ==
        IF IsArray(st)
        THEN SelectSeq([k \in 1..Len(st.v) |-> Str(cleanText(String(st.v[k])))], NonEmptyStr)
        ELSE <<>>
  IN [t |-> "obj",
      name |-> Str(name),
      ingredients |-> Arr(ingredients),
      preparationSteps |-> Arr(preparationSteps),
      note |-> StrOrNull(cleanText(Or(Get(recipe, "note"), Get(recipe, "description")))),
      sourceName |-> StrOrNull(cleanText(Or(Get(recipe, "sourceName"), Get(recipe, "source")))),
      sourceUrl |-> Or(Or(Get(recipe, "sourceUrl"), Get(recipe, "url")), Null),
      prepTime |-> StrOrNull(cleanText(String(Or(Get(recipe, "prepTime"), Str(<<>>))))),
      cookTime |-> StrOrNull(cleanText(String(Or(Get(recipe, "cookTime"), Str(<<>>))))),
      servings |-> StrOrNull(cleanText(String(Or(Get(recipe, "servings"), Str(<<>>)))))]

\* ------------------------------------------------ structured-data mapping
\* the source URLs modelled and URL.hostname of each
Urls == {"http://www.a.test/r", "https://b.test/r"}
Hostname(u) == IF u = "http://www.a.test/r" THEN <<"www.", "a.test">> ELSE <<"b.test">>

\* extractDomain: hostname.replace(/^www\./, '')
extractDomain(url) ==
  LET h == Hostname(url.v[1])
  IN Str(IF h # <<>> /\ h[1] = "www." THEN Tail(h) ELSE h)

\* s.split(/\n+/)
RECURSIVE SkipNl(_)
SkipNl(s) == IF s # <<>> /\ Head(s) = "\n" THEN SkipNl(Tail(s)) ELSE s

RECURSIVE FirstNl(_, _)
FirstNl(s, i) == IF i > Len(s) THEN 0 ELSE IF s[i] = "\n" THEN i ELSE FirstNl(s, i + 1)

RECURSIVE SplitNl(_)
SplitNl(s) ==
  IF FirstNl(s, 1) = 0 THEN <<s>>
  ELSE <<SubSeq(s, 1, FirstNl(s, 1) - 1)>> \o SplitNl(SkipNl(Drop(s, FirstNl(s, 1) - 1)))

\* parseSchemaIngredients without the final filter
parseSchemaIngredients_NoFilter(recipeIngredient) ==
  IF ~Truthy(recipeIngredient) THEN <<>>
  ELSE LET a == IF IsArray(recipeIngredient) THEN recipeIngredient.v ELSE <<recipeIngredient>>
       IN [k \in 1..Len(a) |-> RawIng(cleanText(String(a[k])))]

parseSchemaIngredients(recipeIngredient) ==
  IF ~Truthy(recipeIngredient) THEN <<>>
  ELSE LET a == IF IsArray(recipeIngredient) THEN recipeIngredient.v ELSE <<recipeIngredient>>
       IN SelectSeq([k \in 1..Len(a) |-> RawIng(cleanText(String(a[k])))], HasRaw)

\* the steps pushed for one member of an itemListElement array
SubSteps(sub) ==
  IF sub.t = "str" THEN <<Str(cleanText(sub))>>
  ELSE IF Truthy(Get(sub, "text")) THEN <<Str(cleanText(Get(sub, "text")))>>
  ELSE <<>>

RECURSIVE SectionSteps(_)
SectionSteps(list) ==
  IF list = <<>> THEN <<>> ELSE SubSteps(Head(list)) \o SectionSteps(Tail(list))

\* the steps pushed for one member of recipeInstructions
ItemSteps(item) ==
  IF item.t = "str" THEN <<Str(cleanText(item))>>
  ELSE IF Truthy(Get(item, "text")) THEN <<Str(cleanText(Get(item, "text")))>>
  ELSE IF Get(item, "type") = Str(<<"HowToSection">>) /\ IsArray(Get(item, "itemListElement"))
       THEN SectionSteps(Get(item, "itemListElement").v)
  ELSE IF Truthy(Get(item, "itemListElement")) /\ IsArray(Get(item, "itemListElement"))
       THEN SectionSteps(Get(item, "itemListElement").v)
  ELSE <<>>

RECURSIVE AllItemSteps(_)
AllItemSteps(items) ==
  IF items = <<>> THEN <<>> ELSE ItemSteps(Head(items)) \o AllItemSteps(Tail(items))

parseSchemaSteps(instructions) ==
  IF ~Truthy(instructions) THEN <<>>
  ELSE IF instructions.t = "str"
       THEN LET parts == SplitNl(instructions.v)
            IN SelectSeq([k \in 1..Len(parts) |-> Str(cleanText(Str(parts[k])))], NonEmptyStr)
  ELSE LET a == IF IsArray(instructions) THEN instructions.v ELSE <<instructions>>
       IN SelectSeq(AllItemSteps(a), NonEmptyStr)

\* digit runs of a duration and parseInt of each
DigitRuns == {"0", "1", "30"}
ParseInt(d) == CHOOSE n \in 0..99 : ToString(n) = d

\* iso.match(/PT(?:(\d+)H)?(?:(\d+)M)?/i) applied at the first "PT" of the
\* string; the result is <<hours, minutes>>, or <<>> when "PT" does not occur
RECURSIVE MatchPT(_)
MatchPT(s) ==
  IF Len(s) < 2 THEN <<>>
  ELSE IF s[1] = "P" /\ s[2] = "T"
       THEN LET r == Drop(s, 2)
                hasH == Len(r) >= 2 /\ r[1] \in DigitRuns /\ r[2] = "H"
                r2 == IF hasH THEN Drop(r, 2) ELSE r
                hasM == Len(r2) >= 2 /\ r2[1] \in DigitRuns /\ r2[2] = "M"
            IN <<IF hasH THEN ParseInt(r[1]) ELSE 0, IF hasM THEN ParseInt(r2[1]) ELSE 0>>
  ELSE MatchPT(Tail(s))

\* parseDuration without the test total > 0
parseDuration_NoZeroCheck(iso) ==
  IF ~Truthy(iso) \/ iso.t # "str" THEN Null
  ELSE LET m == MatchPT(iso.v)
       IN IF m = <<>> THEN Null
          ELSE Str(<<ToString(m[1] * 60 + m[2]), " ", "min">>)

parseDuration(iso) ==
  IF ~Truthy(iso) \/ iso.t # "str" THEN Null
  ELSE LET m == MatchPT(iso.v)
       IN IF m = <<>> THEN Null
          ELSE IF m[1] * 60 + m[2] > 0 THEN Str(<<ToString(m[1] * 60 + m[2]), " ", "min">>)
          ELSE Null

parseServings(recipeYield) ==
  IF ~Truthy(recipeYield) THEN Null
  ELSE LET y == IF IsArray(recipeYield)
                THEN (IF recipeYield.v = <<>> THEN Undef ELSE recipeYield.v[1])
                ELSE recipeYield
       IN StrOrNull(cleanText(String(y)))

\* the record of parseSchemaRecipe for the cleaned name; null when it is empty
SchemaRecord(name, schema, sourceUrl) ==
  IF name = <<>> THEN Null
  ELSE [t |-> "obj",
        name |-> Str(name),
        ingredients |-> Arr(parseSchemaIngredients(Get(schema, "recipeIngredient"))),
        preparationSteps |-> Arr(parseSchemaSteps(Get(schema, "recipeInstructions"))),
        note |-> StrOrNull(cleanText(Get(schema, "description"))),
        sourceName |-> extractDomain(sourceUrl),
        sourceUrl |-> sourceUrl,
        prepTime |-> Or(parseDuration(Get(schema, "prepTime")), Null),
        cookTime |-> Or(parseDuration(Get(schema, "cookTime")), Null),
        servings |-> Or(parseServings(Get(schema, "recipeYield")), Null)]

parseSchemaRecipe(schema, sourceUrl) ==
  SchemaRecord(cleanText(Get(schema, "name")), schema, sourceUrl)

\* ------------------------------------------------------------- JSON-LD scan
\* item['@type'] === 'Recipe' || (Array.isArray(item['@type']) &&
\* item['@type'].includes('Recipe'))
IsRecipeTyped(item) ==
  LET ty == Get(item, "type")
  IN \/ ty = Str(<<"Recipe">>)
     \/ IsArray(ty) /\ \E k \in 1..Len(ty.v) : ty.v[k] = Str(<<"Recipe">>)

\* Array.prototype.find with the Recipe test: the first Recipe-typed member,
\* Undef when there is none, "throw" when a member that is reached is null
\* (item['@type'] of null is a TypeError)
RECURSIVE FindRecipe(_)
FindRecipe(items) ==
  IF items = <<>> THEN Undef
  ELSE IF Head(items).t = "null" THEN [t |-> "throw"]
  ELSE IF IsRecipeTyped(Head(items)) THEN Head(items)
  ELSE FindRecipe(Tail(items))

\* the body of the try block for one script block: the record returned, Undef
\* to go on with the next block (also for what the catch swallows: invalid
\* JSON, a null document, a null member)
ScanBlock(b) ==
  IF b.t = "invalid" \/ b.t = "null" THEN Undef
  ELSE LET g == Get(b, "graph")
           inGraph == IF b.t = "obj" /\ Truthy(g) /\ IsArray(g) THEN FindRecipe(g.v) ELSE Undef
           inArray == IF IsArray(b) THEN FindRecipe(b.v) ELSE Undef
       IN IF inGraph.t = "throw" THEN Undef
          ELSE IF Truthy(inGraph) THEN inGraph
          ELSE IF inArray.t = "throw" THEN Undef
          ELSE IF Truthy(inArray) THEN inArray
          ELSE IF b.t = "obj" /\ IsRecipeTyped(b) THEN b
          ELSE Undef

\* extractJsonLd with the try/catch around the whole loop: the first block
\* that fails to parse ends the scan
RECURSIVE extractJsonLd_AbortOnInvalid(_)
extractJsonLd_AbortOnInvalid(blocks) ==
  IF blocks = <<>> THEN Null
  ELSE IF Head(blocks).t = "invalid" THEN Null
  ELSE IF Truthy(ScanBlock(Head(blocks))) THEN ScanBlock(Head(blocks))
  ELSE extractJsonLd_AbortOnInvalid(Tail(blocks))

\* extractJsonLd over the ld+json script blocks of the page in document order
RECURSIVE extractJsonLd(_)
extractJsonLd(blocks) ==
  IF blocks = <<>> THEN Null
  ELSE IF Truthy(ScanBlock(Head(blocks))) THEN ScanBlock(Head(blocks))
  ELSE extractJsonLd(Tail(blocks))

\* ------------------------------------------------------ heuristic markup
\* A page is its ld+json script blocks in document order, the inner markup
\* of its first <h1> and of its <title> (Undef when the element is missing),
\* and the class-carrying elements the ingredient and step patterns can
\* match, each with the pattern class of its class attribute and its inner
\* markup.  Class "specific" is one of the exact tokens of the first pattern
\* (each of them contains the substring of the second pattern), "generic"
\* holds only the substring of the second pattern.
Seps == {"-", "|"}

RECURSIVE LastSep(_, _)
LastSep(s, i) == IF i = 0 THEN 0 ELSE IF s[i] \in Seps THEN i ELSE LastSep(s, i - 1)

\* text.replace(/\s*[-|..]\s*[^-|..]+$/, ''): the last separator, when at
\* least one character follows it, is cut off with the whitespace before it
StripSiteSuffix(s) ==
  LET k == LastSep(s, Len(s))
  IN IF k = 0 \/ k = Len(s) THEN s ELSE TrimRight(SubSeq(s, 1, k - 1))

\* the title chosen from the cleaned <h1> text h and the cleaned <title> text
\* ti without its site suffix ('' for a missing element)
PickTitle(h, ti) ==
  IF h # <<>> /\ StrLen(h) < 200 THEN Str(h)
  ELSE IF ti # <<>> THEN Str(ti)
  ELSE Null

\* cleanText(stripHtml(inner)) of an element, '' when the element is missing
ElementText(inner) == IF inner.t = "str" THEN cleanText(Str(stripHtml(inner.v))) ELSE <<>>

extractTitle(page) ==
  PickTitle(ElementText(page.h1), Trim(StripSiteSuffix(ElementText(page.title))))

IngOk(x) == x.v # <<>> /\ StrLen(x.v) > 2 /\ StrLen(x.v) < 200
StepOk(x) == x.v # <<>> /\ StrLen(x.v) > 10

\* the cleaned text of the elements one pattern matches, in document order
PatternTexts(els, classes) ==
  LET hit(e) == e.cls \in classes
      m == SelectSeq(els, hit)
  IN [k \in 1..Len(m) |-> Str(cleanText(Str(stripHtml(m[k].inner))))]

\* FirstPatternWins with the fragments of both patterns in one list
FirstPatternWins_Merge(p1, p2) == p1 \o p2

\* the accepted fragments of the first pattern if it has any, otherwise those
\* of the second pattern
FirstPatternWins(p1, p2) == IF Len(p1) > 0 THEN p1 ELSE p2

extractIngredients(page) ==
  FirstPatternWins(SelectSeq(PatternTexts(page.ingEls, {"specific"}), IngOk),
                   SelectSeq(PatternTexts(page.ingEls, {"specific", "generic"}), IngOk))

extractSteps(page) ==
  FirstPatternWins(SelectSeq(PatternTexts(page.stepEls, {"specific"}), StepOk),
                   SelectSeq(PatternTexts(page.stepEls, {"specific", "generic"}), StepOk))

\* ingredients.map(i => ({ rawIngredient: i }))
AsRawIngredients(texts) == [k \in 1..Len(texts) |-> RawIng(texts[k].v)]

parseHeuristicHtml(page, sourceUrl) ==
  [t |-> "obj",
      name |-> Or(extractTitle(page), Str(Untitled)),
      ingredients |-> Arr(AsRawIngredients(extractIngredients(page))),
      preparationSteps |-> Arr(extractSteps(page)),
      note |-> Null,
      sourceName |-> extractDomain(sourceUrl),
      sourceUrl |-> sourceUrl,
      prepTime |-> Null,
      cookTime |-> Null,
      servings |-> Null]

\* ---------------------------------------------------------- text segmenter
\* A text is the sequence of its lines (the pieces between newlines), so
\* text.split(/\n/) is the text itself; '' is the text of one empty line.
EmptyText == <<<<>>>>
Digits == {"1", "2"}
Bullets == {"-", "*"}

\* /^(word)\s*:?\s*$/i on a line, the header word being one token
IsHeader(l, word) ==
  /\ l # <<>>
  /\ l[1] = word
  /\ LET r == TrimLeft(Tail(l))
     IN r = <<>> \/ (r[1] = ":" /\ TrimLeft(Tail(r)) = <<>>)

IsIngHeader(l) == IsHeader(l, "ING")
IsStepHeader(l) == IsHeader(l, "STEPS")

RECURSIVE SkipDigits(_)
SkipDigits(s) == IF s # <<>> /\ Head(s) \in Digits THEN SkipDigits(Tail(s)) ELSE s

\* the rest of the line after /^\d+[\.\)]/, or <<"nomatch">>
AfterNumber(l) ==
  LET r == SkipDigits(l)
  IN IF l # <<>> /\ l[1] \in Digits /\ r # <<>> /\ r[1] \in {".", ")"}
     THEN Tail(r) ELSE <<"nomatch">>

\* /^\d+[\.\)]\s/.test(l)
IsNumbered(l) ==
  LET r == AfterNumber(l) IN r # <<"nomatch">> /\ r # <<>> /\ r[1] \in WS

\* lines.findIndex(test), 0-based, -1 when no line passes; hits is the set of
\* the positions (from 1) of the lines that pass the test
FindIndex(hits) ==
  IF hits = {} THEN -1 ELSE (CHOOSE i \in hits : \A j \in hits : i <= j) - 1

\* lines.slice(a, b), 0-based, b exclusive
Slice(lines, a, b) == SubSeq(lines, a + 1, b)

\* l.replace(/^[-•*]\s*/, '').trim()
CleanIngLine(l) ==
  Trim(IF l # <<>> /\ l[1] \in Bullets THEN TrimLeft(Tail(l)) ELSE l)

\* l.replace(/^\d+[\.\)]\s*/, '').trim()
CleanStepLine(l) ==
  Trim(IF AfterNumber(l) # <<"nomatch">> THEN TrimLeft(AfterNumber(l)) ELSE l)

LongerThan1(l) == StrLen(l) > 1
LongerThan5(l) == StrLen(l) > 5
NotEmpty(l) == l # <<>>

\* TextLines without the trim of each line
TextLines_NoTrim(text) == SelectSeq(text, NotEmpty)

\* text.split(/\n/).map(l => l.trim()).filter(Boolean)
TextLines(text) == SelectSeq([k \in 1..Len(text) |-> Trim(text[k])], NotEmpty)

\* the record of normalizeFromText for a text with at least one non-blank line
SegmentLines(lines) ==
  LET ingredientHeaderIdx == FindIndex({k \in 1..Len(lines) : IsIngHeader(lines[k])})
      stepHeaderIdx == FindIndex({k \in 1..Len(lines) : IsStepHeader(lines[k])})
      anyHeader == ingredientHeaderIdx >= 0 \/ stepHeaderIdx >= 0
      firstHeader ==
        IF ingredientHeaderIdx >= 0 /\ stepHeaderIdx >= 0
        THEN (IF ingredientHeaderIdx < stepHeaderIdx THEN ingredientHeaderIdx ELSE stepHeaderIdx)
        ELSE IF ingredientHeaderIdx >= 0 THEN ingredientHeaderIdx ELSE stepHeaderIdx
      remaining == Tail(lines)
      firstNumbered == FindIndex({k \in 1..Len(remaining) : IsNumbered(remaining[k])})
      name == IF anyHeader THEN (IF firstHeader > 0 THEN lines[1] ELSE Untitled)
              ELSE lines[1]
      ingredientLines ==
        IF anyHeader
        THEN IF ingredientHeaderIdx >= 0
             THEN Slice(lines, ingredientHeaderIdx + 1,
                        IF stepHeaderIdx > ingredientHeaderIdx THEN stepHeaderIdx ELSE Len(lines))
             ELSE <<>>
        ELSE IF firstNumbered >= 0 THEN Slice(remaining, 0, firstNumbered) ELSE remaining
      stepLines ==
        IF anyHeader
        THEN IF stepHeaderIdx >= 0
             THEN Slice(lines, stepHeaderIdx + 1,
                        IF ingredientHeaderIdx > stepHeaderIdx THEN ingredientHeaderIdx ELSE Len(lines))
             ELSE <<>>
        ELSE IF firstNumbered >= 0 THEN Slice(remaining, firstNumbered, Len(remaining)) ELSE <<>>
      ings == SelectSeq([k \in 1..Len(ingredientLines) |-> CleanIngLine(ingredientLines[k])],
                        LongerThan1)
      steps == SelectSeq([k \in 1..Len(stepLines) |-> CleanStepLine(stepLines[k])],
                         LongerThan5)
  IN [t |-> "obj",
      name |-> Str(name),
      ingredients |-> Arr([k \in 1..Len(ings) |-> RawIng(ings[k])]),
      preparationSteps |-> Arr([k \in 1..Len(steps) |-> Str(steps[k])]),
      note |-> Null,
      sourceName |-> Null,
      sourceUrl |-> Null,
      prepTime |-> Null,
      cookTime |-> Null,
      servings |-> Null]

\* ------------------------------------------------------------------ errors
InvalidInputError == [t |-> "error", kind |-> "invalid-input", status |-> 0]
EmptyInputError == [t |-> "error", kind |-> "empty-input", status |-> 0]
ExtractionError == [t |-> "error", kind |-> "extraction", status |-> 0]
TimeoutError == [t |-> "error", kind |-> "timeout", status |-> 0]
NetworkError == [t |-> "error", kind |-> "network", status |-> 0]
FetchError(status) == [t |-> "error", kind |-> "http", status |-> status]

\* normalizeFromText: the record, or the error thrown
normalizeFromText(text) ==
  IF Len(TextLines(text)) = 0 THEN EmptyInputError ELSE SegmentLines(TextLines(text))

\* parseSchemaRecipe of the record extractJsonLd found, null when it found none
SchemaAttempt(jsonLd, url) == IF Truthy(jsonLd) THEN parseSchemaRecipe(jsonLd, url) ELSE Null

\* ChooseRecord taking the heuristic record ahead of the structured one
ChooseRecord_HeuristicFirst(recipe, heuristic) ==
  IF /\ Truthy(heuristic.name)
     /\ (Len(heuristic.ingredients.v) > 0 \/ Len(heuristic.preparationSteps.v) > 0)
  THEN heuristic
  ELSE IF Truthy(recipe) THEN recipe
  ELSE ExtractionError

\* the outcome of normalizeFromUrl for the structured record (or null) and the
\* heuristic record, which is looked at only when the first is null
ChooseRecord(recipe, heuristic) ==
  IF Truthy(recipe) THEN recipe
  ELSE IF /\ Truthy(heuristic)
          /\ Truthy(heuristic.name)
          /\ (Len(heuristic.ingredients.v) > 0 \/ Len(heuristic.preparationSteps.v) > 0)
       THEN heuristic
  ELSE ExtractionError

\* what normalizeFromUrl does with the fetched page: the record, or the error
\* thrown
ExtractFromPage(page, url) ==
  ChooseRecord(SchemaAttempt(extractJsonLd(page.blocks), url), parseHeuristicHtml(page, url))

\* the extractors normalizeFromUrl runs on a fetched page, in order
CallsMade(jsonLd, recipe) ==
  <<"extractJsonLd">>
  \o (IF Truthy(jsonLd) THEN <<"parseSchemaRecipe">> ELSE <<>>)
  \o (IF Truthy(recipe) THEN <<>> ELSE <<"parseHeuristicHtml">>)

ExtractorsRun(page, url) ==
  CallsMade(extractJsonLd(page.blocks), SchemaAttempt(extractJsonLd(page.blocks), url))

\* Route without the guard of the first statement of normalizeRecipe
Route_NoGuard(in) ==
  IF Truthy(Get(in, "url")) THEN "url"
  ELSE IF Truthy(Get(in, "text")) THEN "text"
  ELSE "object"

\* Route with the text test ahead of the url test
Route_TextFirst(in) ==
  IF ~Truthy(in) THEN "none"
  ELSE IF ~Truthy(Get(in, "url")) /\ ~Truthy(Get(in, "text")) /\ ~Truthy(Get(in, "recipe"))
       THEN "none"
  ELSE IF Truthy(Get(in, "text")) THEN "text"
  ELSE IF Truthy(Get(in, "url")) THEN "url"
  ELSE "object"

\* the pipeline normalizeRecipe routes a descriptor to ("none": it throws)
Route(in) ==
  IF ~Truthy(in) THEN "none"
  ELSE IF ~Truthy(Get(in, "url")) /\ ~Truthy(Get(in, "text")) /\ ~Truthy(Get(in, "recipe"))
       THEN "none"
  ELSE IF Truthy(Get(in, "url")) THEN "url"
  ELSE IF Truthy(Get(in, "text")) THEN "text"
  ELSE "object"

\* ------------------------------------------------------- bounded inputs
Alphabet == {"x", " ", "<", ">", "&", "amp;"}

\* every string of at most n tokens
Strs(n) == UNION {[1..k -> Alphabet] : k \in 0..n}

U1 == Str(<<"http://www.a.test/r">>)
U2 == Str(<<"https://b.test/r">>)

\* loosely-typed recipe objects built around a probe string s
ObjA(s) ==
  [t |-> "obj", name |-> Str(s),
   ingredients |-> Arr(<<Str(s), [t |-> "obj", rawIngredient |-> Str(s)],
                         [t |-> "obj", quantity |-> Str(<<"1">>), name |-> Str(s)]>>),
   steps |-> Arr(<<Str(s), Str(<<"w12">>)>>),
   description |-> Str(s), source |-> Str(s), url |-> U2,
   prepTime |-> Str(s), servings |-> Str(s)]

ObjB(s) ==
  [t |-> "obj", ingredients |-> Str(s), preparationSteps |-> Arr(<<>>),
   steps |-> Arr(<<Str(s)>>), instructions |-> Arr(<<Str(<<"w12">>)>>), note |-> Str(s)]

ObjC(s) ==
  [t |-> "obj", name |-> Str(s), preparationSteps |-> Str(<<>>),
   instructions |-> Arr(<<Str(<<"w12">>), Str(s)>>),
   sourceName |-> Str(s), sourceUrl |-> U1, cookTime |-> Str(s)]

\* objects that carry the three step fields in every combination
StepObjs ==
  {[t |-> "obj", name |-> Str(<<"x">>), preparationSteps |-> p, steps |-> s, instructions |-> i] :
     p \in {Undef, Null, Arr(<<>>), Arr(<<Str(<<"<", "b", ">", "w12">>), Str(<<" ">>)>>)},
     s \in {Undef, Arr(<<Null, Str(<<"x", "&", "amp;">>)>>)},
     i \in {Undef, Arr(<<Str(<<"w12">>)>>)}}

Objects ==
  {[t |-> "obj"]} \cup UNION {{ObjA(s), ObjB(s), ObjC(s)} : s \in Strs(MaxLen)} \cup StepObjs

LineVals ==
  {<<>>, <<" ">>, <<"x">>, <<"w12">>, <<"ING", ":">>, <<"STEPS">>,
   <<"-", " ", "w12">>, <<"1", ".", " ", "w12">>, <<" ", "<", "b", ">", "x">>}

\* longer texts with section headers
HeaderedTexts ==
  {<<<<"w12">>, <<"ING", ":">>, <<"-", " ", "w12">>, <<"x">>, <<"*", "x", "x">>,
     <<"STEPS", " ", ":">>, <<"1", ".", " ", "w12">>, <<"x">>, <<"w12", " ", "x">>>>,
   <<<<" ", "w12">>, <<>>, <<"ING">>, <<"STEPS">>, <<"2", ")", "w12">>, <<"ING">>, <<"w12">>>>,
   <<<<"ING">>, <<"w12">>, <<"STEPS">>, <<"w12">>, <<"STEPS">>, <<"1", ".", " ", "w12">>>>,
   <<<<"STEPS">>, <<"w12">>, <<"ING">>, <<"x", "x">>, <<"STEPS">>, <<"w12">>>>}

Texts == UNION {[1..k -> LineVals] : k \in 1..MaxLines} \cup HeaderedTexts

T1 == Text(<<<<"w12">>, <<"ING">>, <<"-", " ", "w12">>>>)
R1 == ObjA(<<"x">>)

Desc(u, x, r) == [t |-> "obj", url |-> u, text |-> x, recipe |-> r]

Inputs ==
  {Undef}
  \cup {Desc(U1, Undef, Undef), Desc(U1, T1, R1), Desc(U1, T1, Undef), Desc(U1, Undef, R1)}
  \cup {Desc(u, x, r) : u \in {Undef, Str(<<>>)}, x \in {Undef, T1}, r \in {Undef, R1}}
  \cup {Desc(Undef, Text(x), Undef) : x \in Texts}
  \cup {Desc(Undef, Undef, r) : r \in Objects \cup {Null}}

\* structured-data blocks
MarkupName == Str(<<"<", "b", ">", "x", " ", "&", "amp;", "amp;">>)
SchemaNames == {Undef, Str(<<" ">>), MarkupName}

RecipeFull(n) ==
  [t |-> "obj", type |-> Str(<<"Recipe">>), name |-> n,
   recipeIngredient |-> Arr(<<Str(<<"w12">>), Str(<<" ">>), Str(<<"<", "b", ">">>)>>),
   recipeInstructions |->
     Arr(<<Str(<<"&", "nbsp;">>),
           [t |-> "obj", text |-> Str(<<"w12", "\n">>)],
           [t |-> "obj", type |-> Str(<<"HowToSection">>),
            itemListElement |-> Arr(<<Str(<<" ">>), [t |-> "obj", text |-> Str(<<"x">>)]>>)]>>),
   description |-> Str(<<"<", "b", ">", "x">>),
   prepTime |-> Str(<<"P", "T", "1", "H", "30", "M">>),
   cookTime |-> Str(<<"P", "T", "0", "H", "0", "M">>),
   recipeYield |-> Arr(<<Str(<<"x">>)>>)]

RecipeMin(n) ==
  [t |-> "obj", type |-> Arr(<<Str(<<"Thing">>), Str(<<"Recipe">>)>>), name |-> n,
   recipeIngredient |-> Str(<<"w12">>),
   recipeInstructions |-> Str(<<"\n", "x", "\n", "\n", " ", "\n", "w12">>)]

\* durations of the prepTime and cookTime fields
Durations ==
  {Undef, Null, Str(<<"P", "T">>), Str(<<"P", "T", "1", "H", "30", "M">>),
   Str(<<"P", "T", "0", "H", "0", "M">>), Str(<<"P", "T", "30", "M">>),
   Str(<<"P", "T", "1", "H">>), Str(<<"P", "T", "0", "H", "1", "M">>)}

RecipeTimed(p, c) ==
  [t |-> "obj", type |-> Str(<<"Recipe">>), name |-> Str(<<"w12">>), prepTime |-> p, cookTime |-> c]

OtherObj == [t |-> "obj", type |-> Str(<<"Thing">>), name |-> Str(<<"x">>)]

BlockVals ==
  {[t |-> "invalid"], Null, OtherObj}
  \cup {RecipeFull(n) : n \in SchemaNames}
  \cup {[t |-> "obj", graph |-> Arr(<<OtherObj, RecipeMin(Str(<<"w12">>))>>)],
        Arr(<<OtherObj, RecipeMin(Str(<<"y">>))>>),
        Arr(<<Null, RecipeMin(Str(<<"y">>))>>)}

BlockSeqs == UNION {[1..k -> BlockVals] : k \in 0..MaxBlocks}

El(c, inner) == [cls |-> c, inner |-> inner]

H1Vals == {Undef, Str(<<"<", "b", ">", "w12">>), Str(<<"L200">>)}
TitleVals == {Undef, Str(<<"w12", " ", "-", " ", "w12">>)}
IngElVals ==
  {<<>>, <<El("generic", <<"x">>)>>,
   <<El("generic", <<"w12">>), El("specific", <<"<", "b", ">", "w12", "&", "amp;", "amp;">>),
     El("specific", <<" ">>)>>,
   <<El("specific", <<"x">>), El("generic", <<"w12">>), El("generic", <<"L200">>)>>}
StepElVals ==
  {<<>>, <<El("generic", <<"w12">>)>>, <<El("specific", <<"x">>)>>,
   <<El("generic", <<"w12", " ", "x">>), El("specific", <<"w12">>), El("specific", <<"x">>)>>,
   <<El("specific", <<"x">>), El("generic", <<"w12">>)>>}

MkPage(b, h, ti, ie, se) == [blocks |-> b, h1 |-> h, title |-> ti, ingEls |-> ie, stepEls |-> se]

Pages ==
  {MkPage(b, Undef, Undef, <<>>, <<>>) : b \in BlockSeqs}
  \cup {MkPage(b, h, ti, ie, se) :
          b \in {<<>>, <<RecipeFull(Undef)>>, <<RecipeFull(MarkupName)>>},
          h \in H1Vals, ti \in TitleVals, ie \in IngElVals, se \in StepElVals}
  \cup {MkPage(<<RecipeTimed(p, c)>>, Undef, Undef, <<>>, <<>>) : p, c \in Durations}

Statuses == {200, 201, 302, 404}
Locations == {Undef, U2}

\* -------------------------------------------------------------- the state
VARIABLES
  input,      \* the descriptor normalizeRecipe is called with
  pc,         \* "start", "fetching" (normalizeFromUrl awaits fetchHtml), "done"
  invoked,    \* the pipelines normalizeRecipe has called, in order
  extractors, \* the extractors normalizeFromUrl has run, in order
  reqs,       \* the requests of the redirect chain, in the order issued
  fetched,    \* the promise of the outermost fetchHtml
  result      \* what normalizeRecipe returned or threw

\* several calls of normalizeRecipe in one process
VARIABLES
  calls,      \* the calls made: descriptor, network outcome, position, outcome
  lastIndex   \* lastIndex of the script-block regex object used by the last scan

\* the AnyList client (anylist-client.js) and the lists it has loaded
VARIABLES
  cl,         \* this.client and this.targetList of the AnyListClient
  lists,      \* the items of each list, as the client holds them once loaded
  remote,     \* the items of each list of the account at the AnyList service
  last        \* the last client operation: its arguments and its outcome

\* the tool layer (the MCP server's tool handlers) and the account behind it
VARIABLES
  tc,         \* the last tool call: its arguments, the client operations, the response
  recipes,    \* the names of the recipes of the account, in the order created
  plan        \* the meal plan events of the account: identifier and date

\* tool handlers running at the same time on the shared client
VARIABLES
  hs          \* per handler: its arguments, its position, its outcome

\* the HTTP server (http-server.js): the session map and the last request
VARIABLES
  transports, \* the map from session id to transport
  sessions,   \* the sessions initialized so far: "open", or "closed" with their transport
  http        \* the last request and how it was answered

\* one InMemoryEventStore
VARIABLES
  events,     \* this.events, in insertion order: event id, stream id, message
  clock,      \* Date.now()
  replay      \* the last replayEventsAfter: its argument, what it sent and returned

coreVars == <<input, pc, invoked, extractors, reqs, fetched, result>>
callVars == <<calls, lastIndex>>
clientVars == <<cl, lists, remote, last>>
toolVars == <<tc, recipes, plan>>
httpVars == <<transports, sessions, http>>
storeVars == <<events, clock, replay>>
vars == <<input, pc, invoked, extractors, reqs, fetched, result, calls, lastIndex, cl, lists, remote, last,
          tc, recipes, plan, hs, transports, sessions, http, events, clock, replay>>

Pending == [t |-> "pending"]
None == [t |-> "none"]
Fetched(page) == [t |-> "ok", page |-> page]

\* client.get(url, ..., callback): a request awaiting its response
NewReq(url) == [url |-> url, st |-> "waiting", status |-> 0, loc |-> Undef]

\* no call made yet
CoreIdle ==
  /\ input = Undef
  /\ pc = "start"
  /\ invoked = <<>>
  /\ extractors = <<>>
  /\ reqs = <<>>
  /\ fetched = Pending
  /\ result = None

CallsIdle == calls = <<>> /\ lastIndex = 0

\* new AnyListClient(): client and targetList are null
NewClient == [client |-> "null", target |-> "null"]
NoOp == [op |-> "none", name |-> "", err |-> "none", calls |-> 0, before |-> <<>>, ret |-> <<>>]
ClientIdle == cl = NewClient /\ lists = <<>> /\ remote = <<>> /\ last = NoOp

\* no tool call made, no handler started
NoCall ==
  [tool |-> "none", action |-> "", arg |-> "",
   elicit |-> [supported |-> FALSE, action |-> "none", value |-> "none"],
   second |-> [supported |-> FALSE, action |-> "none", value |-> "none"], thrown |-> <<>>,
   resp |-> [kind |-> "none", text |-> <<>>], ops |-> <<>>, before |-> <<>>]
ToolIdle == tc = NoCall /\ recipes = <<>> /\ plan = <<>> /\ hs = <<>>

\* no request received, nothing stored
NoRequest ==
  [method |-> "none", sid |-> "", init |-> FALSE, stored |-> FALSE, status |-> 0, by |-> "none",
   created |-> "none"]
HttpIdle == transports = <<>> /\ sessions = <<>> /\ http = NoRequest
NoReplay == [after |-> [stream |-> "", time |-> 0, rand |-> 0], sent |-> <<>>, ret |-> ""]
StoreIdle == events = <<>> /\ clock = 0 /\ replay = NoReplay
ServerIdle == ToolIdle /\ HttpIdle /\ StoreIdle

Init ==
  /\ input \in Inputs
  /\ pc = "start"
  /\ invoked = <<>>
  /\ extractors = <<>>
  /\ reqs = <<>>
  /\ fetched = Pending
  /\ result = None
  /\ CallsIdle
  /\ ClientIdle
  /\ ServerIdle

\* normalizeRecipe(input) up to its first suspension
NormalizeRecipe ==
  /\ pc = "start"
  /\ LET r == Route(input)
     IN /\ invoked' = IF r = "none" THEN invoked ELSE Append(invoked, r)
        /\ pc' = IF r = "url" THEN "fetching" ELSE "done"
        /\ reqs' = IF r = "url" THEN <<NewReq(Get(input, "url"))>> ELSE reqs
        /\ result' = CASE r = "none" -> InvalidInputError
                       [] r = "url" -> result
                       [] r = "text" -> normalizeFromText(Get(input, "text").lines)
                       [] OTHER -> normalizeFromObject(Get(input, "recipe"))
  /\ UNCHANGED <<input, extractors, fetched>>
  /\ UNCHANGED <<callVars, clientVars, toolVars, hs, httpVars, storeVars>>

\* resolve or reject of the outermost promise; a settled promise ignores
\* later calls.  normalizeFromUrl resumes with the outcome.
Settle(outcome) ==
  IF fetched = Pending
  THEN /\ fetched' = outcome
       /\ pc' = "done"
       /\ extractors' = IF outcome.t = "ok" THEN ExtractorsRun(outcome.page, input.url)
                        ELSE extractors
       /\ result' = IF outcome.t = "ok" THEN ExtractFromPage(outcome.page, input.url)
                    ELSE outcome
  ELSE UNCHANGED <<fetched, pc, extractors, result>>

\* IsRedirect without the test of the Location header
IsRedirect_NoLocation(status, loc) == status >= 300 /\ status < 400

\* res.statusCode >= 300 && res.statusCode < 400 && res.headers.location
IsRedirect(status, loc) == status >= 300 /\ status < 400 /\ Truthy(loc)

\* IsOk accepting every 2xx status
IsOk_Any2xx(status) == status >= 200 /\ status < 300

\* the status the callback accepts as success (res.statusCode !== 200 rejects)
IsOk(status) == status = 200

\* the response callback of request k
Response(k) ==
  /\ reqs[k].st = "waiting"
  /\ \E status \in Statuses, loc \in Locations :
       /\ Truthy(loc) => status = 302
       /\ IF IsRedirect(status, loc)
          THEN /\ Len(reqs) < MaxReqs
               /\ reqs' = Append([reqs EXCEPT ![k].st = "redirected", ![k].status = status,
                                                ![k].loc = loc],
                                 NewReq(loc))
               /\ UNCHANGED <<fetched, pc, extractors, result>>
          ELSE IF ~IsOk(status)
          THEN /\ reqs' = [reqs EXCEPT ![k].st = "responded", ![k].status = status]
               /\ Settle(FetchError(status))
          ELSE /\ reqs' = [reqs EXCEPT ![k].st = "streaming", ![k].status = status]
               /\ UNCHANGED <<fetched, pc, extractors, result>>
  /\ UNCHANGED <<input, invoked, callVars, clientVars, toolVars, hs, httpVars, storeVars>>

\* res.on('end'): the body is complete
End(k) ==
  /\ reqs[k].st = "streaming"
  /\ \E page \in Pages :
       /\ reqs' = [reqs EXCEPT ![k].st = "ended"]
       /\ Settle(Fetched(page))
  /\ UNCHANGED <<input, invoked, callVars, clientVars, toolVars, hs, httpVars, storeVars>>

\* res.on('error', reject)
ResponseError(k) ==
  /\ reqs[k].st = "streaming"
  /\ reqs' = [reqs EXCEPT ![k].st = "failed"]
  /\ Settle(NetworkError)
  /\ UNCHANGED <<input, invoked, callVars, clientVars, toolVars, hs, httpVars, storeVars>>

\* req.on('error', reject)
RequestError(k) ==
  /\ reqs[k].st = "waiting"
  /\ reqs' = [reqs EXCEPT ![k].st = "failed"]
  /\ Settle(NetworkError)
  /\ UNCHANGED <<input, invoked, callVars, clientVars, toolVars, hs, httpVars, storeVars>>

\* a request whose socket is still open: no response yet, a response whose
\* body was never read (the redirect and the non-200 branch return without
\* consuming or destroying it), or a body being read
SocketOpen(r) == r.st \in {"waiting", "redirected", "responded", "streaming"}

\* req.on('timeout'): the socket of request k was idle for 15 s
Timeout(k) ==
  /\ SocketOpen(reqs[k])
  /\ reqs' = [reqs EXCEPT ![k].st = "destroyed"]
  /\ Settle(TimeoutError)
  /\ UNCHANGED <<input, invoked, callVars, clientVars, toolVars, hs, httpVars, storeVars>>

Next ==
  \/ NormalizeRecipe
  \/ \E k \in 1..Len(reqs) : Response(k)
  \/ \E k \in 1..Len(reqs) : End(k)
  \/ \E k \in 1..Len(reqs) : ResponseError(k)
  \/ \E k \in 1..Len(reqs) : RequestError(k)
  \/ \E k \in 1..Len(reqs) : Timeout(k)

Spec == Init /\ [][Next]_vars

\* ------------------------------------------- several calls in one process
\* The only objects of the module that carry state between two uses are its
\* regular expressions with the g flag (lastIndex).  Positions in the page
\* are counted in script blocks: lastIndex k is the position just after the
\* k-th block, 0 the start of the page.

\* ScanStart for a script-block regex created once for the module
ScanStart_SharedRegex(prev) == prev

\* the regex literal in the body of extractJsonLd is evaluated at every call:
\* a new object, lastIndex 0, whatever the previous scan left
ScanStart(prev) == 0

\* the first block after position i that holds a record, 0 when there is none
RECURSIVE FoundAt(_, _)
FoundAt(blocks, i) ==
  IF i > Len(blocks) THEN 0
  ELSE IF Truthy(ScanBlock(blocks[i])) THEN i
  ELSE FoundAt(blocks, i + 1)

\* lastIndex after a scan that started at position s: just after the block
\* whose record was returned, 0 when exec ran to the end and returned null
ScanEnd(blocks, s) == FoundAt(blocks, s + 1)

\* the part of the page a scan that starts at position s sees
PageFrom(page, s) ==
  [page EXCEPT !.blocks = IF s >= Len(page.blocks) THEN <<>> ELSE Drop(page.blocks, s)]

\* pages, and the descriptors of the calls with the outcome of their fetch
PA == MkPage(<<RecipeFull(MarkupName)>>, Undef, Undef, <<>>, <<>>)
PB == MkPage(<<OtherObj, RecipeMin(Str(<<"w12">>)), RecipeFull(MarkupName)>>, Undef, Undef, <<>>, <<>>)
PC ==
  MkPage(<<>>, Str(<<"<", "b", ">", "w12">>), Undef,
         <<El("generic", <<"w12">>), El("specific", <<"w12", "&", "amp;">>)>>, <<>>)
PD == MkPage(<<[t |-> "invalid"]>>, Undef, Undef, <<>>, <<>>)

Scenario(in, net) == [in |-> in, net |-> net, st |-> "new", out |-> None]

CallScenarios ==
  {Scenario(Undef, None), Scenario(Desc(Undef, T1, Undef), None),
   Scenario(Desc(Undef, Undef, R1), None), Scenario(Desc(U1, T1, Undef), TimeoutError),
   Scenario(Desc(U2, Undef, Undef), Fetched(PA))}
  \cup {Scenario(Desc(U1, Undef, Undef), Fetched(pg)) : pg \in {PA, PB, PC, PD}}

CallsInit ==
  /\ CoreIdle
  /\ ClientIdle
  /\ ServerIdle
  /\ calls \in [1..MaxCalls -> CallScenarios]
  /\ lastIndex = 0

\* normalizeRecipe(input) of call c up to its first suspension
Call(c) ==
  /\ calls[c].st = "new"
  /\ LET r == Route(calls[c].in)
     IN calls' = [calls EXCEPT
                    ![c].st = IF r = "url" THEN "fetching" ELSE "done",
                    ![c].out = CASE r = "none" -> InvalidInputError
                                 [] r = "url" -> None
                                 [] r = "text" -> normalizeFromText(Get(calls[c].in, "text").lines)
                                 [] OTHER -> normalizeFromObject(Get(calls[c].in, "recipe"))]
  /\ UNCHANGED <<lastIndex, coreVars, clientVars, toolVars, hs, httpVars, storeVars>>

\* the fetch of call c has settled and normalizeFromUrl runs to its end
Resume(c) ==
  /\ calls[c].st = "fetching"
  /\ IF calls[c].net.t = "ok"
     THEN /\ calls' = [calls EXCEPT
                         ![c].st = "done",
                         ![c].out = ExtractFromPage(PageFrom(calls[c].net.page, ScanStart(lastIndex)),
                                                    calls[c].in.url)]
          /\ lastIndex' = ScanEnd(calls[c].net.page.blocks, ScanStart(lastIndex))
     ELSE /\ calls' = [calls EXCEPT ![c].st = "done", ![c].out = calls[c].net]
          /\ UNCHANGED lastIndex
  /\ UNCHANGED <<coreVars, clientVars, toolVars, hs, httpVars, storeVars>>

CallsNext ==
  \/ \E c \in 1..MaxCalls : Call(c)
  \/ \E c \in 1..MaxCalls : Resume(c)

SpecCalls == CallsInit /\ [][CallsNext]_vars

\* ------------------------------------------------------ the AnyList client
\* An item is its name and its checked flag; a list is the sequence of its
\* items.  The calls of one client are made one after the other; each call to
\* the service succeeds or fails.
ListNames == {"L1", "L2"}
ItemNames == {"a", "b"}
Item(n, c) == [name |-> n, checked |-> c]

\* List.getItemByName of the library: the position of the first item of that
\* name, 0 for undefined
getItemByName(items, name) ==
  IF \E k \in 1..Len(items) : items[k].name = name
  THEN CHOOSE k \in 1..Len(items) :
         items[k].name = name /\ \A m \in 1..(k - 1) : items[m].name # name
  ELSE 0

\* List.addItem of the library, once the service has accepted the item
ListAddItem(items, item) == Append(items, item)

\* List.removeItem of the library, once the service has removed the item
ListRemoveItem(items, k) == SubSeq(items, 1, k - 1) \o SubSeq(items, k + 1, Len(items))

\* AnyList.getListByName of the library on the lists a client has loaded
getListByName(client, name) ==
  IF client = "authed" /\ name \in ListNames THEN name ELSE "null"

\* what an item operation leaves: the list the client holds, the list at the
\* service, the error thrown ("none" for a normal return) and the number of
\* calls to the service
Outcome(items, rem, err, n) == [items |-> items, remote |-> rem, err |-> err, calls |-> n]

\* !this.targetList
NotConnected(c) == c.target = "null"

\* the branch of addItem for a name the list does not hold: createItem,
\* await targetList.addItem, then await newItem.save() for a quantity other
\* than 1
CreateItem(items, rem, name, quantity, ok1, ok2) ==
  IF ~ok1 \/ Len(items) >= MaxItems THEN Outcome(items, rem, "service", 1)
  ELSE IF quantity = 1
       THEN Outcome(ListAddItem(items, Item(name, FALSE)), ListAddItem(rem, Item(name, FALSE)),
                    "none", 1)
  ELSE Outcome(ListAddItem(items, Item(name, FALSE)), ListAddItem(rem, Item(name, FALSE)),
               IF ok2 THEN "none" ELSE "service", 2)

\* the branch of addItem for an item the list holds at position k: the item
\* is unchecked and save() is called without await
Uncheck(items, rem, k, ok1) ==
  Outcome([items EXCEPT ![k].checked = FALSE],
          IF ok1 THEN [rem EXCEPT ![k].checked = FALSE] ELSE rem, "none", 1)

\* addItem without the lookup of an existing item
addItem_NoExistenceCheck(items, rem, name, quantity, ok1, ok2) ==
  CreateItem(items, rem, name, quantity, ok1, ok2)

\* addItem on a connected client (notes and category null)
addItem(items, rem, name, quantity, ok1, ok2) ==
  IF getItemByName(items, name) # 0 THEN Uncheck(items, rem, getItemByName(items, name), ok1)
  ELSE CreateItem(items, rem, name, quantity, ok1, ok2)

\* removeItem on a connected client, the item being at position k (0: none)
CheckOff(items, rem, k, ok) ==
  IF k = 0 THEN Outcome(items, rem, "not-found", 0)
  ELSE IF items[k].checked THEN Outcome(items, rem, "none", 0)
  ELSE Outcome([items EXCEPT ![k].checked = TRUE],
               IF ok THEN [rem EXCEPT ![k].checked = TRUE] ELSE rem,
               IF ok THEN "none" ELSE "service", 1)

removeItem(items, rem, name, ok) == CheckOff(items, rem, getItemByName(items, name), ok)

\* deleteItem on a connected client, the item being at position k (0: none)
Delete(items, rem, k, ok) ==
  IF k = 0 THEN Outcome(items, rem, "not-found", 0)
  ELSE IF ok THEN Outcome(ListRemoveItem(items, k), ListRemoveItem(rem, k), "none", 1)
  ELSE Outcome(items, rem, "service", 1)

deleteItem(items, rem, name, ok) == Delete(items, rem, getItemByName(items, name), ok)

\* the record of an operation
Op(op, name, err, n, before, ret) ==
  [op |-> op, name |-> name, err |-> err, calls |-> n, before |-> before, ret |-> ret]

\* the throw of the guard 'Not connected to any list. Call connect() first.'
Failed(op, name) == Op(op, name, "not-connected", 0, <<>>, <<>>)

\* an item operation on the target list ends with outcome r
Done(op, name, r) ==
  /\ lists' = [lists EXCEPT ![cl.target] = r.items]
  /\ remote' = [remote EXCEPT ![cl.target] = r.remote]
  /\ last' = Op(op, name, r.err, r.calls, lists[cl.target], <<>>)

Unchecked(i) == ~i.checked
Names(items) == [k \in 1..Len(items) |-> items[k].name]

\* getItems returning an empty array on a client without target list
getItems_EmptyWhenDisconnected(c, ls, includeChecked) ==
  IF NotConnected(c) THEN Op("getItems", "", "none", 0, <<>>, <<>>)
  ELSE Op("getItems", "", "none", 0, ls[c.target],
          Names(IF includeChecked THEN ls[c.target] ELSE SelectSeq(ls[c.target], Unchecked)))

\* getItems: the names of the items of the target list, the unchecked ones
\* unless includeChecked
getItems(c, ls, includeChecked) ==
  IF NotConnected(c) THEN Failed("getItems", "")
  ELSE Op("getItems", "", "none", 0, ls[c.target],
          Names(IF includeChecked THEN ls[c.target] ELSE SelectSeq(ls[c.target], Unchecked)))

\* the lists of the account when the client is created
InitialItems ==
  {<<>>, <<Item("a", FALSE)>>, <<Item("a", TRUE)>>, <<Item("b", TRUE), Item("a", FALSE)>>}

ClientInit ==
  /\ CoreIdle
  /\ CallsIdle
  /\ cl = NewClient
  /\ lists = [l \in ListNames |-> <<>>]
  /\ \E i \in InitialItems : remote = [l \in ListNames |-> IF l = "L1" THEN i ELSE <<Item("b", FALSE)>>]
  /\ last = NoOp
  /\ ServerIdle

\* connect taking every client for a new one
HasClient_Never(c) == FALSE

\* this.client is set: connect creates a client and logs in only if it is not
HasClient(c) == c.client # "null"

\* what connect leaves: this.client and this.targetList, the lists the
\* client holds, the error thrown and the number of calls to the service
Connected(c, ls, err, n) == [cl |-> c, lists |-> ls, err |-> err, calls |-> n]

\* the lookup of the target list and what follows it (lines 67-77)
FindTarget(c, ls, L, n) ==
  Connected([c EXCEPT !.target = getListByName(c.client, L)], ls,
            IF getListByName(c.client, L) = "null" THEN "connect-failed" ELSE "none", n)

\* connect(listName) with the credentials set in the environment, on a
\* client c holding the lists ls while the account holds rem.  The calls
\* counted are login and getLists; a new AnyList client is constructed in the
\* branch that logs in and nowhere else.
connect(c, ls, rem, L, okLogin) ==
  IF c.client # "null" /\ c.target # "null" /\ c.target = L THEN Connected(c, ls, "none", 0)
  ELSE IF ~HasClient(c) /\ ~okLogin
       THEN Connected([c EXCEPT !.client = "unauthed"], ls, "connect-failed", 1)
  ELSE IF ~HasClient(c) THEN FindTarget([c EXCEPT !.client = "authed"], rem, L, 2)
  ELSE FindTarget(c, ls, L, 0)

ConnectDone(L, r) ==
  /\ cl' = r.cl
  /\ lists' = r.lists
  /\ last' = Op("connect", L, r.err, r.calls, <<>>, <<>>)

Connect ==
  \E L \in ListNames \cup {"Lx"}, okLogin \in BOOLEAN :
    /\ ConnectDone(L, connect(cl, lists, remote, L, okLogin))
    /\ UNCHANGED <<remote, coreVars, callVars, toolVars, hs, httpVars, storeVars>>

\* disconnect(): teardown of the library client, then both fields are null
Disconnect ==
  \E ok \in BOOLEAN :
    /\ IF cl.client # "null" /\ ~ok
       THEN /\ last' = Op("disconnect", "", "disconnect-failed", 0, <<>>, <<>>)
            /\ UNCHANGED cl
       ELSE /\ cl' = NewClient
            /\ last' = Op("disconnect", "", "none", 0, <<>>, <<>>)
    /\ UNCHANGED <<lists, remote, coreVars, callVars, toolVars, hs, httpVars, storeVars>>

AddItem ==
  \E name \in ItemNames, quantity \in {1, 2}, ok1 \in BOOLEAN, ok2 \in BOOLEAN :
    /\ IF NotConnected(cl)
       THEN last' = Failed("addItem", name) /\ UNCHANGED <<lists, remote>>
       ELSE Done("addItem", name,
                 addItem(lists[cl.target], remote[cl.target], name, quantity, ok1, ok2))
    /\ UNCHANGED <<cl, coreVars, callVars, toolVars, hs, httpVars, storeVars>>

RemoveItem ==
  \E name \in ItemNames, ok \in BOOLEAN :
    /\ IF NotConnected(cl)
       THEN last' = Failed("removeItem", name) /\ UNCHANGED <<lists, remote>>
       ELSE Done("removeItem", name, removeItem(lists[cl.target], remote[cl.target], name, ok))
    /\ UNCHANGED <<cl, coreVars, callVars, toolVars, hs, httpVars, storeVars>>

DeleteItem ==
  \E name \in ItemNames, ok \in BOOLEAN :
    /\ IF NotConnected(cl)
       THEN last' = Failed("deleteItem", name) /\ UNCHANGED <<lists, remote>>
       ELSE Done("deleteItem", name, deleteItem(lists[cl.target], remote[cl.target], name, ok))
    /\ UNCHANGED <<cl, coreVars, callVars, toolVars, hs, httpVars, storeVars>>

GetItems ==
  \E includeChecked \in BOOLEAN :
    /\ last' = getItems(cl, lists, includeChecked)
    /\ UNCHANGED <<cl, lists, remote, coreVars, callVars, toolVars, hs, httpVars, storeVars>>

ClientNext ==
  \/ Connect
  \/ Disconnect
  \/ AddItem
  \/ RemoveItem
  \/ DeleteItem
  \/ GetItems

ClientSpec == ClientInit /\ [][ClientNext]_vars

\* ------------------------------------------------------------ the tool layer
\* The handlers of the tools shopping, recipes and meal_plan.  A parameter
\* that was not given is "".  A message is the sequence of its parts.  The
\* names used are "a", "b", "ab", "A" for items and "Soup", "soup" for recipes.
EnvListName == "L1"
TargetListName(listName) == IF listName = "" THEN EnvListName ELSE listName

\* String.toLowerCase and String.includes on the names used
Lower(n) == CASE n = "A" -> "a" [] n = "Soup" -> "soup" [] OTHER -> n
Includes(n, q) == q = n \/ (n = "ab" /\ q \in {"a", "b"})

errorResponse(msg) == [kind |-> "error", text |-> msg]
textResponse(msg) == [kind |-> "text", text |-> msg]
\* a handler that ends without a return statement
NoResponse == [kind |-> "undefined", text |-> <<>>]

\* what a step of a handler gives: a value, or the message of the error thrown
Return(v) == [thrown |-> <<>>, val |-> v]
Throw(msg) == [thrown |-> msg, val |-> ""]
Threw(r) == r.thrown # <<>>

\* the answer of the client to an elicitation: whether it supports
\* elicitation, the action of its result, and the value of the requested
\* field of result.content ("none": the result has no content)
Elicit(supported, action, value) == [supported |-> supported, action |-> action, value |-> value]
NoElicit == Elicit(FALSE, "none", "none")
Unsupported == Elicit(FALSE, "cancel", "none")

elicitOrError(e, fallbackError) ==
  IF ~e.supported THEN Throw(fallbackError)
  ELSE IF e.action = "accept" /\ e.value # "none" THEN Return(e.value)
  ELSE IF e.action = "decline" THEN Throw(<<"User declined to provide input.">>)
  ELSE Throw(<<"User cancelled the operation.">>)

elicitRequiredField(fieldName, e) ==
  elicitOrError(e, <<"Missing required parameter", fieldName>>)

elicitItemChoice(itemName, e) ==
  elicitOrError(e, <<"Multiple items match", itemName, "Please specify the exact item name.">>)

elicitConfirmation(message, e) ==
  elicitOrError(e, message \o <<"(cannot confirm without elicitation support)">>)

\* let x = param; if (!x) x = await elicitRequiredField(fieldName, ...)
Required(given, fieldName, e) ==
  IF given # "" THEN Return(given) ELSE elicitRequiredField(fieldName, e)

\* findPartialMatches: the names of the unchecked items that contain the
\* name, whatever the case
PartialMatch(items, itemName, k) ==
  ~items[k].checked /\ Includes(Lower(items[k].name), Lower(itemName))

RECURSIVE MatchesFrom(_, _, _)
MatchesFrom(items, itemName, k) ==
  IF k > Len(items) THEN <<>>
  ELSE (IF PartialMatch(items, itemName, k) THEN <<items[k].name>> ELSE <<>>)
       \o MatchesFrom(items, itemName, k + 1)

findPartialMatches(items, itemName) == MatchesFrom(items, itemName, 1)

Resolve(itemName, matches, e) ==
  IF Len(matches) = 0 THEN Throw(<<"Item", itemName, "not found in list">>)
  ELSE IF Len(matches) = 1 THEN Return(matches[1])
  ELSE elicitItemChoice(itemName, e)

resolveItemName(items, itemName, e) ==
  IF getItemByName(items, itemName) # 0 THEN Return(itemName)
  ELSE Resolve(itemName, findPartialMatches(items, itemName), e)

\* catch (error) { return errorResponse(`<Tool> ${action} failed: ${error.message}`) }
Caught(tool, action, thrown) == errorResponse(<<tool, action, "failed:">> \o thrown)

\* the message of the error a client operation throws
FailedTo(op, name, err) == <<"Failed to", op, name, err>>
ConnectFailed == <<"Failed to connect to AnyList">>

\* a client operation called by a handler, with its argument
Called(op, arg) == [op |-> op, arg |-> arg]

\* what a shopping handler leaves: the client, the lists it holds, the lists
\* of the account, the error caught, the response returned and the item
\* operations called after connect
ShopRan(c, ls, rem, thrown, resp, ops) ==
  [cl |-> c, lists |-> ls, remote |-> rem, thrown |-> thrown, resp |-> resp, ops |-> ops]

ShopFailure(action, c, ls, rem, thrown) ==
  ShopRan(c, ls, rem, thrown, Caught("Shopping", action, thrown), <<>>)

\* the item operation op on the target list has ended with outcome out
ItemDone(action, r, rem, op, itemName, out) ==
  ShopRan(r.cl, [r.lists EXCEPT ![r.cl.target] = out.items],
          [rem EXCEPT ![r.cl.target] = out.remote],
          IF out.err = "none" THEN <<>> ELSE FailedTo(op, itemName, out.err),
          IF out.err = "none" THEN textResponse(<<"Successfully", action, itemName, r.cl.target>>)
          ELSE Caught("Shopping", action, FailedTo(op, itemName, out.err)),
          <<Called(op, itemName)>>)

\* check_item and delete_item after resolveItemName
Resolved(action, r, rem, res, ok1) ==
  IF Threw(res) THEN ShopFailure(action, r.cl, r.lists, rem, res.thrown)
  ELSE IF action = "check_item"
       THEN ItemDone(action, r, rem, "removeItem", res.val,
                     removeItem(r.lists[r.cl.target], rem[r.cl.target], res.val, ok1))
  ELSE ItemDone(action, r, rem, "deleteItem", res.val,
                deleteItem(r.lists[r.cl.target], rem[r.cl.target], res.val, ok1))

\* list_items after connect
Listed(r, rem, includeChecked) ==
  ShopRan(r.cl, r.lists, rem, <<>>,
          textResponse(<<"Shopping list", r.cl.target>> \o getItems(r.cl, r.lists, includeChecked).ret),
          <<Called("getItems", "")>>)

\* an item action after await anylistClient.connect(list_name) has ended as r
ShopConnected(action, r, rem, itemName, e2, quantity, includeChecked, ok1, ok2) ==
  IF r.err # "none" THEN ShopFailure(action, r.cl, r.lists, rem, ConnectFailed)
  ELSE IF action = "list_items" THEN Listed(r, rem, includeChecked)
  ELSE IF action = "add_item"
       THEN ItemDone(action, r, rem, "addItem", itemName,
                     addItem(r.lists[r.cl.target], rem[r.cl.target], itemName, quantity, ok1, ok2))
  ELSE Resolved(action, r, rem, resolveItemName(r.lists[r.cl.target], itemName, e2), ok1)

\* add_item, check_item, delete_item once the name is there or the
\* elicitation of it has thrown
ShopNamed(action, c, ls, rem, listName, req, e2, quantity, okLogin, ok1, ok2) ==
  IF Threw(req) THEN ShopFailure(action, c, ls, rem, req.thrown)
  ELSE ShopConnected(action, connect(c, ls, rem, TargetListName(listName), okLogin), rem,
                     req.val, e2, quantity, FALSE, ok1, ok2)

\* the handler of the tool shopping: the switch has no default clause
shopping(action, c, ls, rem, listName, name, e, e2, quantity, includeChecked, okLogin, ok1, ok2) ==
  IF action \in {"add_item", "check_item", "delete_item"}
  THEN ShopNamed(action, c, ls, rem, listName, Required(name, "name", e), e2, quantity,
                 okLogin, ok1, ok2)
  ELSE IF action = "list_items"
  THEN ShopConnected(action, connect(c, ls, rem, TargetListName(listName), okLogin), rem,
                     "", e2, quantity, includeChecked, ok1, ok2)
  ELSE ShopRan(c, ls, rem, <<>>, NoResponse, <<>>)

\* ---- recipes
\* what a recipes or meal_plan handler leaves of the recipes (or the events)
\* of the account, with the error caught, the response and the operations
AcctRan(acct, thrown, resp, ops) ==
  [acct |-> acct, thrown |-> thrown, resp |-> resp, ops |-> ops]
AcctFailure(tool, action, acct, thrown, ops) ==
  AcctRan(acct, thrown, Caught(tool, action, thrown), ops)

NameIncludes(n, q) == Includes(Lower(n), Lower(q))

\* getRecipes(searchQuery): the recipes whose name contains the query
RecipesMatching(rec, q) ==
  SelectSeq(rec, LAMBDA n : NameIncludes(n, q))
getRecipes(rec, searchQuery, ok) ==
  IF ok THEN Return(RecipesMatching(rec, searchQuery)) ELSE Throw(<<"Failed to get recipes">>)

\* Array.find(r => r.name.toLowerCase() === name.toLowerCase()): the position
\* of the first such recipe, 0 for undefined
FindRecipeByName(rec, name) ==
  IF \E k \in 1..Len(rec) : Lower(rec[k]) = Lower(name)
  THEN CHOOSE k \in 1..Len(rec) :
         Lower(rec[k]) = Lower(name) /\ \A m \in 1..(k - 1) : Lower(rec[m]) # Lower(name)
  ELSE 0

\* createRecipe: the recipe is created and saved at the service, or the call
\* throws
createRecipe(rec, name, ok) ==
  IF ok THEN [recipes |-> Append(rec, name), thrown |-> <<>>]
  ELSE [recipes |-> rec, thrown |-> <<"Failed to create recipe">>]

\* deleteRecipe: the first recipe of that name, whatever the case, is deleted
DeleteAt(rec, name, k, ok) ==
  IF k = 0 THEN [recipes |-> rec, thrown |-> <<"Failed to delete recipe", "Recipe", name, "not found">>]
  ELSE IF ok THEN [recipes |-> SubSeq(rec, 1, k - 1) \o SubSeq(rec, k + 1, Len(rec)), thrown |-> <<>>]
  ELSE [recipes |-> rec, thrown |-> <<"Failed to delete recipe">>]
deleteRecipe(rec, name, ok) == DeleteAt(rec, name, FindRecipeByName(rec, name), ok)

\* the end of recipes create: createRecipe has ended as made
RecipeCreated(made, recipeName, ops) ==
  IF made.thrown # <<>>
  THEN AcctFailure("Recipes", "create", made.recipes, made.thrown, Append(ops, Called("createRecipe", recipeName)))
  ELSE AcctRan(made.recipes, <<>>, textResponse(<<"Created recipe", recipeName>>),
               Append(ops, Called("createRecipe", recipeName)))

\* recipes create after the deletion of the existing recipe has ended as del
Recreate(del, exact, recipeName, okCreate) ==
  IF del.thrown # <<>>
  THEN AcctFailure("Recipes", "create", del.recipes, del.thrown, <<Called("deleteRecipe", exact)>>)
  ELSE RecipeCreated(createRecipe(del.recipes, recipeName, okCreate), recipeName,
                     <<Called("deleteRecipe", exact)>>)

\* recipes create for a name that exists as exact: confirmed is the outcome of
\* elicitConfirmation
Overwrite(rec, exact, recipeName, confirmed, okDelete, okCreate) ==
  IF Threw(confirmed) THEN AcctFailure("Recipes", "create", rec, confirmed.thrown, <<>>)
  ELSE IF confirmed.val # "true"
       THEN AcctRan(rec, <<>>, textResponse(<<"Cancelled", exact, "was not overwritten.">>), <<>>)
  ELSE Recreate(deleteRecipe(rec, exact, okDelete), exact, recipeName, okCreate)

\* recipes create once getRecipes(recipeName) has ended as got
CreateChecked(rec, recipeName, got, ec, okDelete, okCreate) ==
  IF Threw(got) THEN AcctFailure("Recipes", "create", rec, got.thrown, <<>>)
  ELSE IF FindRecipeByName(got.val, recipeName) = 0
       THEN RecipeCreated(createRecipe(rec, recipeName, okCreate), recipeName, <<>>)
  ELSE Overwrite(rec, got.val[FindRecipeByName(got.val, recipeName)], recipeName,
                 elicitConfirmation(<<"Recipe", got.val[FindRecipeByName(got.val, recipeName)],
                                      "already exists. Overwrite?">>, ec),
                 okDelete, okCreate)

RecipeDeleted(del, name) ==
  IF del.thrown # <<>>
  THEN AcctFailure("Recipes", "delete", del.recipes, del.thrown, <<Called("deleteRecipe", name)>>)
  ELSE AcctRan(del.recipes, <<>>, textResponse(<<"Deleted recipe", name>>),
               <<Called("deleteRecipe", name)>>)

\* create and delete once the name is there or the elicitation of it has
\* thrown
RecipeNamed(action, rec, req, ec, okGet, okDelete, okCreate) ==
  IF Threw(req) THEN AcctFailure("Recipes", action, rec, req.thrown, <<>>)
  ELSE IF action = "create"
       THEN CreateChecked(rec, req.val, getRecipes(rec, req.val, okGet), ec, okDelete, okCreate)
  ELSE RecipeDeleted(deleteRecipe(rec, req.val, okDelete), req.val)

\* the handler of the tool recipes after await anylistClient.connect(...)
\* has ended with connErr: the switch has no default clause
recipesTool(action, connErr, rec, name, e, ec, okGet, okDelete, okCreate) ==
  IF connErr # "none" THEN AcctFailure("Recipes", action, rec, ConnectFailed, <<>>)
  ELSE IF action \in {"create", "delete"}
       THEN RecipeNamed(action, rec, Required(name, "name", e), ec, okGet, okDelete, okCreate)
  ELSE AcctRan(rec, <<>>, NoResponse, <<>>)

\* ---- meal plan
EventIds == {"e1", "e2"}
Event(id, date) == [id |-> id, date |-> date]
UsedIds(pl) == {pl[k].id : k \in 1..Len(pl)}

\* the identifier the service gives a new event
NewEventId(pl) == IF "e1" \notin UsedIds(pl) THEN "e1" ELSE "e2"

\* createMealPlanEvent({date}): the event is created and saved, or the call
\* throws
createMealPlanEvent(pl, date, ok) ==
  IF ok /\ EventIds \ UsedIds(pl) # {}
  THEN [plan |-> Append(pl, Event(NewEventId(pl), date)),
        thrown |-> <<>>]
  ELSE [plan |-> pl, thrown |-> <<"Failed to create meal plan event">>]

\* deleteMealPlanEvent(eventId): events.find(e => e.identifier === eventId)
deleteMealPlanEvent(pl, eventId, ok) ==
  IF eventId \notin UsedIds(pl)
  THEN [plan |-> pl, thrown |-> <<"Failed to delete meal plan event", "Meal plan event", eventId, "not found">>]
  ELSE IF ok THEN [plan |-> SelectSeq(pl, LAMBDA ev : ev.id # eventId), thrown |-> <<>>]
  ELSE [plan |-> pl, thrown |-> <<"Failed to delete meal plan event">>]

\* the end of a meal_plan action: the client operation op, called with arg,
\* has ended as done
PlanDone(action, op, arg, done, text) ==
  IF done.thrown # <<>>
  THEN AcctFailure("Meal plan", action, done.plan, done.thrown, <<Called(op, arg)>>)
  ELSE AcctRan(done.plan, <<>>, textResponse(text), <<Called(op, arg)>>)

\* create_event: the elicited date is stored in params.date; the call is made
\* with date, the constant the handler took from params when it started
CreateEvent(pl, date, req, ok) ==
  IF Threw(req) THEN AcctFailure("Meal plan", "create_event", pl, req.thrown, <<>>)
  ELSE PlanDone("create_event", "createMealPlanEvent", date, createMealPlanEvent(pl, date, ok),
                <<"Created meal plan event for", date>>)

\* delete_event: the elicited id is stored in params.event_id; the call is
\* made with event_id, the constant the handler took from params when it
\* started
DeleteEvent(pl, event_id, req, ok) ==
  IF Threw(req) THEN AcctFailure("Meal plan", "delete_event", pl, req.thrown, <<>>)
  ELSE PlanDone("delete_event", "deleteMealPlanEvent", event_id, deleteMealPlanEvent(pl, event_id, ok),
                <<"Deleted meal plan event", event_id>>)

\* the handler of the tool meal_plan after await anylistClient.connect(...)
\* has ended with connErr: the switch has no default clause
mealPlanTool(action, connErr, pl, given, e, ok) ==
  IF connErr # "none" THEN AcctFailure("Meal plan", action, pl, ConnectFailed, <<>>)
  ELSE IF action = "create_event" THEN CreateEvent(pl, given, Required(given, "date", e), ok)
  ELSE IF action = "delete_event" THEN DeleteEvent(pl, given, Required(given, "event_id", e), ok)
  ELSE AcctRan(pl, <<>>, NoResponse, <<>>)

\* ---- tool calls, one after the other
ToolCall(tool, action, arg, e, second, before, r) ==
  [tool |-> tool, action |-> action, arg |-> arg, elicit |-> e, second |-> second,
   thrown |-> r.thrown, resp |-> r.resp, ops |-> r.ops, before |-> before]

\* the answers of a client to the elicitation of a field, v being a value it
\* may give
Elicits(v) ==
  {Unsupported, Elicit(TRUE, "decline", "none"), Elicit(TRUE, "cancel", "none"),
   Elicit(TRUE, "accept", "none"), Elicit(TRUE, "accept", v)}
ElicitsIfMissing(given, v) == IF given = "" THEN Elicits(v) ELSE {NoElicit}
\* the answers to a second elicitation (a choice, a confirmation) of a client
\* that answered the first with e
Seconds(e, values) ==
  IF e # NoElicit /\ ~e.supported THEN {Unsupported}
  ELSE {Unsupported, Elicit(TRUE, "decline", "none")} \cup {Elicit(TRUE, "accept", v) : v \in values}

ToolItems == {<<Item("a", TRUE)>>, <<Item("ab", FALSE), Item("A", FALSE)>>}
ToolRecipes == {<<>>, <<"Soup">>, <<"Stew", "Soup">>}

\* the server has started: no client yet, the account holds items on L1 and
\* rec as its recipes
ToolStart(items, rec) ==
  /\ CoreIdle
  /\ CallsIdle
  /\ HttpIdle
  /\ StoreIdle
  /\ cl = NewClient
  /\ lists = [l \in ListNames |-> <<>>]
  /\ remote = [l \in ListNames |-> IF l = "L1" THEN items ELSE <<Item("b", FALSE)>>]
  /\ last = NoOp
  /\ tc = NoCall
  /\ recipes = rec
  /\ plan = <<>>
  /\ hs = <<>>

ShoppingInit == \E i \in ToolItems : ToolStart(i, <<>>)
RecipesInit == \E rec \in ToolRecipes : ToolStart(<<>>, rec)
MealPlanInit == ToolStart(<<>>, <<>>)

ShoppingDone(action, name, e, r) ==
  /\ cl' = r.cl
  /\ lists' = r.lists
  /\ remote' = r.remote
  /\ tc' = ToolCall("shopping", action, name, e, NoElicit, <<>>, r)

\* whether login succeeds, for a client that would log in
Logins(c) == IF c.client = "null" THEN BOOLEAN ELSE {TRUE}

\* the arguments of a call of the tool shopping and the answers of the
\* service and of the client that bear on it
ShoppingCall(action, listName, name, e, e2, okLogin, ok1) ==
  /\ ShoppingDone(action, name, e,
                  shopping(action, cl, lists, remote, listName, name, e, e2, 1, FALSE,
                           okLogin, ok1, ok1))
  /\ UNCHANGED <<recipes, plan, hs, last, coreVars, callVars, httpVars, storeVars>>

\* a call of the tool shopping
ShoppingTool ==
  \E listName \in {"", "Lx"}, okLogin \in Logins(cl) :
    \/ \E action \in {"list_items", "fly_to_moon"} :
         ShoppingCall(action, listName, "", NoElicit, NoElicit, okLogin, TRUE)
    \/ \E name \in {"", "a"}, ok1 \in BOOLEAN :
         \E e \in ElicitsIfMissing(name, "a") :
           \/ ShoppingCall("add_item", listName, name, e, NoElicit, okLogin, ok1)
           \/ \E action \in {"check_item", "delete_item"}, e2 \in Seconds(e, {"ab"}) :
                ShoppingCall(action, listName, name, e, e2, okLogin, ok1)

ShoppingNext == ShoppingTool

ShoppingSpec == ShoppingInit /\ [][ShoppingNext]_vars

AcctConnected(r) ==
  /\ cl' = r.cl
  /\ lists' = r.lists

RecipesDone(action, name, e, ec, r) ==
  /\ recipes' = r.acct
  /\ tc' = ToolCall("recipes", action, name, e, ec, recipes, r)

RecipesCall(action, name, e, ec, okLogin, okGet, okDelete, okCreate) ==
  /\ AcctConnected(connect(cl, lists, remote, EnvListName, okLogin))
  /\ RecipesDone(action, name, e, ec,
                 recipesTool(action, connect(cl, lists, remote, EnvListName, okLogin).err,
                             recipes, name, e, ec, okGet, okDelete, okCreate))
  /\ UNCHANGED <<remote, plan, hs, last, coreVars, callVars, httpVars, storeVars>>

\* a call of the tool recipes
RecipesTool ==
  \E okLogin \in Logins(cl) :
    \/ RecipesCall("publish", "", NoElicit, NoElicit, okLogin, TRUE, TRUE, TRUE)
    \/ \E name \in {"", "Soup", "soup"}, okDelete \in BOOLEAN :
         \E e \in ElicitsIfMissing(name, "soup") :
           \/ RecipesCall("delete", name, e, NoElicit, okLogin, TRUE, okDelete, TRUE)
           \/ \E ec \in Seconds(e, {"true", "false"}), okGet \in BOOLEAN, okCreate \in BOOLEAN :
                RecipesCall("create", name, e, ec, okLogin, okGet, okDelete, okCreate)

PlanToolDone(action, given, e, r) ==
  /\ plan' = r.acct
  /\ tc' = ToolCall("meal_plan", action, given, e, NoElicit, <<>>, r)

MealPlanCall(action, given, e, okLogin, ok) ==
  /\ AcctConnected(connect(cl, lists, remote, EnvListName, okLogin))
  /\ PlanToolDone(action, given, e,
                  mealPlanTool(action, connect(cl, lists, remote, EnvListName, okLogin).err,
                               plan, given, e, ok))
  /\ UNCHANGED <<remote, recipes, hs, last, coreVars, callVars, httpVars, storeVars>>

\* a call of the tool meal_plan: given is the date of create_event, the
\* event_id of delete_event
MealPlanTool ==
  \E okLogin \in Logins(cl) :
    \/ MealPlanCall("nope", "", NoElicit, okLogin, TRUE)
    \/ \E date \in {"", "d1"}, ok \in BOOLEAN :
         \E e \in ElicitsIfMissing(date, "d2") : MealPlanCall("create_event", date, e, okLogin, ok)
    \/ \E event_id \in {"", "e1"}, ok \in BOOLEAN :
         \E e \in ElicitsIfMissing(event_id, "e2") : MealPlanCall("delete_event", event_id, e, okLogin, ok)

RecipesNext == RecipesTool

RecipesSpec == RecipesInit /\ [][RecipesNext]_vars

MealPlanNext == MealPlanTool

MealPlanSpec == MealPlanInit /\ [][MealPlanNext]_vars

\* ---------------------------------------------------------- the HTTP server
\* The session map of http-server.js.  A transport is named by the session
\* id it generates; "" stands for a request without mcp-session-id header.
SessionIds == {"s1", "s2"}
\* the session ids requests carry: generated ones, one never generated, and
\* a name every JavaScript object inherits
ObjectPrototypeKeys == {"constructor"}
HeaderValues == {"", "s1", "s2", "s9"} \cup ObjectPrototypeKeys

\* transports[sessionId] on the plain object transports: the transport stored
\* under that key, else what the object inherits under it, else undefined
Inherited(key) == "Object.prototype." \o key
Lookup(map, key) ==
  IF key \in DOMAIN map THEN map[key]
  ELSE IF key \in ObjectPrototypeKeys THEN Inherited(key)
  ELSE "undefined"
IsTransport(v) == v \in SessionIds

\* transports[sessionId] = transport and delete transports[sid]
Store(map, key, v) == [k \in DOMAIN map \cup {key} |-> IF k = key THEN v ELSE map[k]]
Remove(map, key) == [k \in DOMAIN map \ {key} |-> map[k]]

Request(method, sid, init, stored, status, by, created) ==
  [method |-> method, sid |-> sid, init |-> init, stored |-> stored, status |-> status,
   by |-> by, created |-> created]

\* transport.onclose: the transport is removed from the map if it is there
OnClose(sid) ==
  /\ transports' = IF Lookup(transports, sid) # "undefined" THEN Remove(transports, sid)
                   ELSE transports
  /\ sessions' = Store(sessions, sid, "closed")

\* POST /mcp with a session id under which the lookup gives something: the
\* request is handed to it; what is not a transport has no handleRequest, the
\* TypeError is caught and answered with 500
PostReuse(sid, init) ==
  /\ http' = IF IsTransport(Lookup(transports, sid))
             THEN Request("POST", sid, init, TRUE, 200, Lookup(transports, sid), "none")
             ELSE Request("POST", sid, init, FALSE, 500, "none", "none")
  /\ UNCHANGED <<transports, sessions>>

\* POST /mcp without session id and with an initialize request: a new
\* transport is connected to a new server and handles the request; when it
\* accepts the request it generates its session id and onsessioninitialized
\* stores it
PostInitialize(new, accepted) ==
  /\ new \in SessionIds \ DOMAIN sessions
  /\ IF accepted
     THEN /\ transports' = Store(transports, new, new)
          /\ sessions' = Store(sessions, new, "open")
          /\ http' = Request("POST", "", TRUE, FALSE, 200, new, new)
     ELSE /\ http' = Request("POST", "", TRUE, FALSE, 406, new, "none")
          /\ UNCHANGED <<transports, sessions>>

PostInvalid(sid, init) ==
  /\ http' = Request("POST", sid, init, FALSE, 400, "none", "none")
  /\ UNCHANGED <<transports, sessions>>

mcpPostHandler ==
  \E sid \in HeaderValues, init \in BOOLEAN, accepted \in BOOLEAN :
    /\ IF sid # "" /\ Lookup(transports, sid) # "undefined" THEN PostReuse(sid, init)
       ELSE IF sid = "" /\ init THEN \E new \in SessionIds : PostInitialize(new, accepted)
       ELSE PostInvalid(sid, init)
    /\ UNCHANGED <<coreVars, callVars, clientVars, toolVars, hs, storeVars>>

\* GET /mcp: the request is handed to what the lookup gives; the TypeError of
\* what is not a transport is not caught and the request is never answered
mcpGetHandler ==
  \E sid \in HeaderValues :
    /\ http' = IF sid = "" \/ Lookup(transports, sid) = "undefined"
               THEN Request("GET", sid, FALSE, FALSE, 400, "none", "none")
               ELSE IF IsTransport(Lookup(transports, sid))
               THEN Request("GET", sid, FALSE, TRUE, 200, Lookup(transports, sid), "none")
               ELSE Request("GET", sid, FALSE, FALSE, 0, "none", "none")
    /\ UNCHANGED <<transports, sessions, coreVars, callVars, clientVars, toolVars, hs, storeVars>>

\* DELETE /mcp: the transport handles the request by closing itself; the
\* TypeError of what is not a transport is caught and answered with 500
mcpDeleteHandler ==
  \E sid \in HeaderValues :
    /\ IF sid = "" \/ Lookup(transports, sid) = "undefined"
       THEN /\ http' = Request("DELETE", sid, FALSE, FALSE, 400, "none", "none")
            /\ UNCHANGED <<transports, sessions>>
       ELSE IF IsTransport(Lookup(transports, sid))
       THEN /\ http' = Request("DELETE", sid, FALSE, TRUE, 200, Lookup(transports, sid), "none")
            /\ OnClose(Lookup(transports, sid))
       ELSE /\ http' = Request("DELETE", sid, FALSE, FALSE, 500, "none", "none")
            /\ UNCHANGED <<transports, sessions>>
    /\ UNCHANGED <<coreVars, callVars, clientVars, toolVars, hs, storeVars>>

\* a transport is closed from the server's side
TransportClosed ==
  \E sid \in DOMAIN transports :
    /\ OnClose(transports[sid])
    /\ UNCHANGED <<http, coreVars, callVars, clientVars, toolVars, hs, storeVars>>

HttpInit ==
  /\ CoreIdle
  /\ CallsIdle
  /\ ClientIdle
  /\ ToolIdle
  /\ StoreIdle
  /\ HttpIdle

HttpNext ==
  \/ mcpPostHandler
  \/ mcpGetHandler
  \/ mcpDeleteHandler
  \/ TransportClosed

HttpSpec == HttpInit /\ [][HttpNext]_vars

\* ----------------------------------------------------------- the event store
\* One InMemoryEventStore.  An event id is `${streamId}_${Date.now()}_${random}`:
\* its stream id, the time and the random suffix.  The message of an event is
\* told by its position in the map, the order in which events were stored.
StreamIds == {"s1", "s2", "_GET_stream"}
Rands == {1, 2}
EventId(streamId, time, rand) == [stream |-> streamId, time |-> time, rand |-> rand]
NoEventId == EventId("", 0, 0)
\* an event id that no store has generated
UnknownEventId == EventId("s1", 0, 0)

\* generateEventId
generateEventId(streamId, rand) == EventId(streamId, clock, rand)

\* eventId.split('_')[0]
getStreamIdFromEventId(eventId) ==
  IF eventId.stream = "_GET_stream" THEN "" ELSE eventId.stream

\* a.localeCompare(b) < 0 for the ids of one stream: the time, then the suffix
Precedes(a, b) == a.time < b.time \/ (a.time = b.time /\ a.rand < b.rand)

Has(evs, eventId) == \E k \in 1..Len(evs) : evs[k] = eventId

\* the entries of one stream, sorted by event id
RECURSIVE SortedIds(_)
SortedIds(S) ==
  IF S = {} THEN <<>>
  ELSE <<CHOOSE a \in S : \A b \in S \ {a} : Precedes(a, b)>>
       \o SortedIds(S \ {CHOOSE a \in S : \A b \in S \ {a} : Precedes(a, b)})

StreamEntries(evs, streamId) == {evs[k] : k \in {j \in 1..Len(evs) : evs[j].stream = streamId}}

\* the loop of replayEventsAfter over the sorted entries of the stream: those
\* that follow the last event id are sent
RECURSIVE SentAfter(_, _, _)
SentAfter(sorted, lastEventId, foundLastEvent) ==
  IF sorted = <<>> THEN <<>>
  ELSE IF Head(sorted) = lastEventId THEN SentAfter(Tail(sorted), lastEventId, TRUE)
  ELSE (IF foundLastEvent THEN <<Head(sorted)>> ELSE <<>>)
       \o SentAfter(Tail(sorted), lastEventId, foundLastEvent)

Replayed(lastEventId, sent, ret) == [after |-> lastEventId, sent |-> sent, ret |-> ret]

replayEventsAfter(evs, lastEventId) ==
  IF ~Has(evs, lastEventId) THEN Replayed(lastEventId, <<>>, "")
  ELSE IF getStreamIdFromEventId(lastEventId) = "" THEN Replayed(lastEventId, <<>>, "")
  ELSE Replayed(lastEventId,
                SentAfter(SortedIds(StreamEntries(evs, getStreamIdFromEventId(lastEventId))),
                          lastEventId, FALSE),
                getStreamIdFromEventId(lastEventId))

\* storeEvent(streamId, message); the random suffix makes the id a new one
StoreEvent ==
  \E streamId \in StreamIds, rand \in Rands :
    /\ Len(events) < MaxEvents
    /\ ~Has(events, generateEventId(streamId, rand))
    /\ events' = Append(events, generateEventId(streamId, rand))
    /\ replay' = NoReplay
    /\ UNCHANGED <<clock, coreVars, callVars, clientVars, toolVars, hs, httpVars>>

\* a millisecond passes
Tick ==
  /\ clock < MaxClock
  /\ clock' = clock + 1
  /\ UNCHANGED <<events, replay, coreVars, callVars, clientVars, toolVars, hs, httpVars>>

\* replayEventsAfter(lastEventId, { send })
Replay ==
  \E lastEventId \in {events[k] : k \in 1..Len(events)} \cup {UnknownEventId} :
    /\ replay' = replayEventsAfter(events, lastEventId)
    /\ UNCHANGED <<events, clock, coreVars, callVars, clientVars, toolVars, hs, httpVars>>

StoreInit ==
  /\ CoreIdle
  /\ CallsIdle
  /\ ClientIdle
  /\ ToolIdle
  /\ HttpIdle
  /\ StoreIdle

StoreNext ==
  \/ StoreEvent
  \/ Tick
  \/ Replay

StoreSpec == StoreInit /\ [][StoreNext]_vars

\* ------------------------------------------------- handlers running together
\* Two shopping tool calls on the one shared AnyListClient.  A handler runs
\* until its next await.  Awaiting the service (login, getLists, the save of
\* an item, its addition, its removal) ends when the service answers; awaiting
\* a function that returned without waiting for the service (connect on an
\* authenticated client, resolveItemName) puts the rest of the handler behind
\* the continuations that are already queued.  Requests arrive, and the
\* service answers, only when no continuation is queued; the requests of one
\* batch are queued together.  The item name of every call is HandlerItem, a
\* name that has no partial match.
HandlerIds == {1, 2}
ShoppingActions == {"add_item", "check_item", "delete_item", "list_items"}
HandlerItem == "a"

NoHandler == [action |-> "none", list |-> "null", pc |-> "idle", on |-> "none", seen |-> "none",
              resp |-> "none"]
Handler(action, listName) == [NoHandler EXCEPT !.action = action, !.list = listName, !.pc = "start"]

\* the handler at the head of the queue, the queue without it, and the queue
\* with it moved to the end
Running == Head(hs.ready)
Rest == Tail(hs.ready)
Requeue == Append(Tail(hs.ready), Head(hs.ready))

\* handler h goes on as c, the queue becomes ready, the last connect that
\* returned true was for list connected
Put(h, c, ready, connected) ==
  hs' = [calls |-> [hs.calls EXCEPT ![h] = c], ready |-> ready, connected |-> connected]

\* the handler's catch block: errorResponse
Fails(c) == [c EXCEPT !.pc = "done", !.resp = "error"]
\* return textResponse(...)
Succeeds(c) == [c EXCEPT !.pc = "done", !.resp = "text"]
At(c, pc1) == [c EXCEPT !.pc = pc1]
On(c, listName) == [c EXCEPT !.on = listName]
Seen(c, client) == [c EXCEPT !.seen = client]

\* connect, lines 65-77: the lookup of the target list on this.client by
\* handler h; then is the queue if connect returns true, else if it throws
FindList(h, c, then, else) ==
  /\ cl' = FindTarget(c, lists, hs.calls[h].list, 0).cl
  /\ IF getListByName(c.client, hs.calls[h].list) = "null"
     THEN Put(h, Fails(Seen(hs.calls[h], c.client)), else, hs.connected)
     ELSE Put(h, At(Seen(hs.calls[h], c.client), "connected"), then, hs.calls[h].list)

\* connect up to its first await, lines 44-59
StartConnect(h) ==
  IF cl.client # "null" /\ cl.target # "null" /\ cl.target = hs.calls[h].list
  THEN Put(h, At(hs.calls[h], "connected"), Requeue, hs.calls[h].list) /\ UNCHANGED <<cl, lists, remote>>
  ELSE IF ~HasClient(cl)
  THEN /\ cl' = [cl EXCEPT !.client = "unauthed"]
       /\ Put(h, At(hs.calls[h], "login"), Rest, hs.connected)
       /\ UNCHANGED <<lists, remote>>
  ELSE FindList(h, cl, Requeue, Rest) /\ UNCHANGED <<lists, remote>>

\* addItem up to its first await on the target list t, the item being at
\* position k of it (0: none); the save of an existing item is not awaited
StartAddItem(h, t, k, ok) ==
  IF t = "null" THEN Put(h, Fails(hs.calls[h]), Rest, hs.connected) /\ UNCHANGED <<cl, lists, remote>>
  ELSE IF k # 0
  THEN /\ lists' = [lists EXCEPT ![t] = Uncheck(lists[t], remote[t], k, ok).items]
       /\ remote' = [remote EXCEPT ![t] = IF ok /\ getItemByName(remote[t], HandlerItem) # 0
                                           THEN [remote[t] EXCEPT ![getItemByName(remote[t], HandlerItem)].checked = FALSE]
                                           ELSE remote[t]]
       /\ Put(h, Succeeds(On(hs.calls[h], t)), Rest, hs.connected)
       /\ UNCHANGED cl
  ELSE Put(h, At(On(hs.calls[h], t), "adding"), Rest, hs.connected) /\ UNCHANGED <<cl, lists, remote>>

\* resolveItemName on the target list t: the exact match, or the throw for a
\* name without partial match
StartResolve(h, t) ==
  /\ IF t # "null" /\ getItemByName(lists[t], HandlerItem) # 0
     THEN Put(h, At(hs.calls[h], "resolved"), Requeue, hs.connected)
     ELSE Put(h, Fails(hs.calls[h]), Rest, hs.connected)
  /\ UNCHANGED <<cl, lists, remote>>

\* getItems on the target list t
StartGetItems(h, t) ==
  /\ IF t = "null" THEN Put(h, Fails(hs.calls[h]), Rest, hs.connected)
     ELSE Put(h, Succeeds(On(hs.calls[h], t)), Rest, hs.connected)
  /\ UNCHANGED <<cl, lists, remote>>

\* removeItem up to its first await on the target list t, the item being at
\* position k
StartRemoveItem(h, t, k) ==
  IF t = "null" \/ k = 0
  THEN Put(h, Fails(hs.calls[h]), Rest, hs.connected) /\ UNCHANGED <<cl, lists, remote>>
  ELSE IF lists[t][k].checked
  THEN Put(h, Succeeds(On(hs.calls[h], t)), Rest, hs.connected) /\ UNCHANGED <<cl, lists, remote>>
  ELSE /\ lists' = [lists EXCEPT ![t][k].checked = TRUE]
       /\ Put(h, At(On(hs.calls[h], t), "saving"), Rest, hs.connected)
       /\ UNCHANGED <<cl, remote>>

\* deleteItem up to its first await on the target list t
StartDeleteItem(h, t, k) ==
  /\ IF t = "null" \/ k = 0 THEN Put(h, Fails(hs.calls[h]), Rest, hs.connected)
     ELSE Put(h, At(On(hs.calls[h], t), "removing"), Rest, hs.connected)
  /\ UNCHANGED <<cl, lists, remote>>

ItemAt(t) == IF t = "null" THEN 0 ELSE getItemByName(lists[t], HandlerItem)

\* the handler after await anylistClient.connect(list_name)
AfterConnect(h, action) ==
  IF action = "add_item"
  THEN \E ok \in IF ItemAt(cl.target) # 0 THEN BOOLEAN ELSE {TRUE} :
         StartAddItem(h, cl.target, ItemAt(cl.target), ok)
  ELSE IF action = "list_items" THEN StartGetItems(h, cl.target)
  ELSE StartResolve(h, cl.target)

\* the handler after await resolveItemName(itemName)
AfterResolve(h, action) ==
  IF action = "check_item" THEN StartRemoveItem(h, cl.target, ItemAt(cl.target))
  ELSE StartDeleteItem(h, cl.target, ItemAt(cl.target))

Others == <<last, coreVars, callVars, toolVars, httpVars, storeVars>>

\* one request, or a batch of two, arrives
Arrive ==
  /\ hs.ready = <<>>
  /\ \E batch \in {<<1>>, <<2>>, <<1, 2>>} :
       /\ \A k \in 1..Len(batch) : hs.calls[batch[k]].pc = "idle"
       /\ \E a1 \in ShoppingActions, a2 \in IF Len(batch) = 2 THEN ShoppingActions ELSE {"none"},
             l1 \in ListNames \cup {"Lx"},
             l2 \in IF Len(batch) = 2 THEN ListNames \cup {"Lx"} ELSE {"null"} :
            hs' = [hs EXCEPT !.ready = batch,
                             !.calls = [h \in HandlerIds |->
                                          IF h = batch[1] THEN Handler(a1, l1)
                                          ELSE IF Len(batch) = 2 THEN Handler(a2, l2)
                                          ELSE hs.calls[h]]]
  /\ UNCHANGED <<cl, lists, remote, Others>>

\* the continuation at the head of the queue runs until its next await
Run ==
  /\ hs.ready # <<>>
  /\ IF hs.calls[Running].pc = "start" THEN StartConnect(Running)
     ELSE IF hs.calls[Running].pc = "connected" THEN AfterConnect(Running, hs.calls[Running].action)
     ELSE AfterResolve(Running, hs.calls[Running].action)
  /\ UNCHANGED Others

\* await this.client.login() ends; getLists is called
LoginDone ==
  \E h \in HandlerIds, ok \in BOOLEAN :
    /\ hs.ready = <<>>
    /\ hs.calls[h].pc = "login"
    /\ IF ok THEN Put(h, At(hs.calls[h], "getLists"), <<>>, hs.connected)
       ELSE Put(h, Fails(hs.calls[h]), <<>>, hs.connected)
    /\ UNCHANGED <<cl, lists, remote, Others>>

\* await this.client.getLists() ends; connect goes on to the lookup
GetListsDone ==
  \E h \in HandlerIds, ok \in BOOLEAN :
    /\ hs.ready = <<>>
    /\ hs.calls[h].pc = "getLists"
    /\ IF ok THEN FindList(h, [cl EXCEPT !.client = "authed"], <<h>>, <<>>) /\ lists' = remote
       ELSE Put(h, Fails(hs.calls[h]), <<>>, hs.connected) /\ UNCHANGED <<cl, lists>>
    /\ UNCHANGED <<remote, Others>>

\* await this.targetList.addItem(newItem) ends
AddDone ==
  \E h \in HandlerIds, ok \in BOOLEAN :
    /\ hs.ready = <<>>
    /\ hs.calls[h].pc = "adding"
    /\ IF ok /\ Len(remote[hs.calls[h].on]) < MaxItems /\ Len(lists[hs.calls[h].on]) < MaxItems
       THEN /\ lists' = [lists EXCEPT ![hs.calls[h].on] = ListAddItem(@, Item(HandlerItem, FALSE))]
            /\ remote' = [remote EXCEPT ![hs.calls[h].on] = ListAddItem(@, Item(HandlerItem, FALSE))]
            /\ Put(h, Succeeds(hs.calls[h]), <<>>, hs.connected)
       ELSE Put(h, Fails(hs.calls[h]), <<>>, hs.connected) /\ UNCHANGED <<lists, remote>>
    /\ UNCHANGED <<cl, Others>>

\* the item of that name a list holds is set checked at the service
SaveChecked(items) ==
  IF getItemByName(items, HandlerItem) = 0 THEN items
  ELSE [items EXCEPT ![getItemByName(items, HandlerItem)].checked = TRUE]

\* await existingItem.save() of removeItem ends
SaveDone ==
  \E h \in HandlerIds, ok \in BOOLEAN :
    /\ hs.ready = <<>>
    /\ hs.calls[h].pc = "saving"
    /\ IF ok THEN /\ remote' = [remote EXCEPT ![hs.calls[h].on] = SaveChecked(@)]
                  /\ Put(h, Succeeds(hs.calls[h]), <<>>, hs.connected)
       ELSE Put(h, Fails(hs.calls[h]), <<>>, hs.connected) /\ UNCHANGED remote
    /\ UNCHANGED <<cl, lists, Others>>

\* the list without the first item of that name
Without(items) ==
  IF getItemByName(items, HandlerItem) = 0 THEN items
  ELSE ListRemoveItem(items, getItemByName(items, HandlerItem))

\* await this.targetList.removeItem(existingItem) of deleteItem ends
RemoveDone ==
  \E h \in HandlerIds, ok \in BOOLEAN :
    /\ hs.ready = <<>>
    /\ hs.calls[h].pc = "removing"
    /\ IF ok THEN /\ lists' = [lists EXCEPT ![hs.calls[h].on] = Without(@)]
                  /\ remote' = [remote EXCEPT ![hs.calls[h].on] = Without(@)]
                  /\ Put(h, Succeeds(hs.calls[h]), <<>>, hs.connected)
       ELSE Put(h, Fails(hs.calls[h]), <<>>, hs.connected) /\ UNCHANGED <<lists, remote>>
    /\ UNCHANGED <<cl, Others>>

\* the lists of the account when the handlers start
HandlerItems == {<<>>, <<Item("a", FALSE)>>, <<Item("a", TRUE)>>}
Account(i) == [l \in ListNames |-> IF l = "L1" THEN i ELSE <<Item("b", FALSE)>>]

\* the server after start, or after an earlier call that connected to L1
HandlersInit ==
  /\ CoreIdle
  /\ CallsIdle
  /\ HttpIdle
  /\ StoreIdle
  /\ tc = NoCall
  /\ recipes = <<>>
  /\ plan = <<>>
  /\ last = NoOp
  /\ \E i \in HandlerItems :
       /\ remote = Account(i)
       /\ \/ cl = NewClient /\ lists = [l \in ListNames |-> <<>>]
             /\ hs = [calls |-> [h \in HandlerIds |-> NoHandler], ready |-> <<>>, connected |-> "null"]
          \/ cl = [client |-> "authed", target |-> "L1"] /\ lists = Account(i)
             /\ hs = [calls |-> [h \in HandlerIds |-> NoHandler], ready |-> <<>>, connected |-> "L1"]

HandlersNext ==
  \/ Arrive
  \/ Run
  \/ LoginDone
  \/ GetListsDone
  \/ AddDone
  \/ SaveDone
  \/ RemoveDone

HandlersSpec == HandlersInit /\ [][HandlersNext]_vars

\* =================================================================== claims
Present(in, f) == Truthy(Get(in, f))
NumPresent(in) ==
  (IF Present(in, "url") THEN 1 ELSE 0) + (IF Present(in, "text") THEN 1 ELSE 0)
  + (IF Present(in, "recipe") THEN 1 ELSE 0)

\* the outcome of the URL pipeline once the fetch has settled
UrlOutcome ==
  IF fetched.t = "ok" THEN ExtractFromPage(fetched.page, input.url) ELSE fetched

\* C1: when more than one of url, text and recipe is present, normalizeRecipe
\* invokes exactly one pipeline, the url pipeline if url is present and
\* otherwise the text pipeline, returns that pipeline's record or error
\* unchanged, and invokes no other pipeline, also when the chosen one fails.
C1_OnePipelineByPriority ==
  (pc # "start" /\ NumPresent(input) > 1) =>
    /\ invoked = <<IF Present(input, "url") THEN "url" ELSE "text">>
    /\ (invoked # <<"url">> => reqs = <<>> /\ extractors = <<>>)
    /\ (pc = "done" =>
          result = IF Present(input, "url") THEN UrlOutcome
                   ELSE normalizeFromText(input.text.lines))

\* url, text and recipe all present, the url pipeline failed, nothing else ran
C1_Witness ==
  /\ NumPresent(input) = 3
  /\ pc = "done"
  /\ result.t = "error"
  /\ invoked = <<"url">>

Absent(in, f) == Get(in, f).t \in {"undef", "null"}

\* C2: with no descriptor, or with url, text and recipe all absent,
\* normalizeRecipe fails with the invalid-input error before any pipeline runs:
\* no pipeline is invoked, no request is issued and no record is produced.
C2_InvalidInputBeforeAnyPipeline ==
  (pc # "start" /\ Absent(input, "url") /\ Absent(input, "text") /\ Absent(input, "recipe")) =>
    /\ pc = "done"
    /\ result = InvalidInputError
    /\ invoked = <<>>
    /\ reqs = <<>>
    /\ extractors = <<>>

\* a descriptor object with no member has been rejected
C2_Witness ==
  /\ input = Desc(Undef, Undef, Undef)
  /\ pc = "done"
  /\ result = InvalidInputError

\* the URL pipeline has run its extractors on a fetched page
Extracted == pc = "done" /\ fetched.t = "ok"

\* the record the structured-data extractor finds on the fetched page
Found == extractJsonLd(fetched.page.blocks)
Usable == Truthy(Found) /\ cleanText(Get(Found, "name")) # <<>>

HeuristicUsable(page) ==
  LET h == parseHeuristicHtml(page, U1)
  IN Len(h.ingredients.v) > 0 \/ Len(h.preparationSteps.v) > 0

IsNamedRecipe(b) ==
  b.t = "obj" /\ Get(b, "type") = Str(<<"Recipe">>) /\ cleanText(Get(b, "name")) # <<>>

\* C5: a malformed structured-data block is skipped and the scan goes on: for
\* a page whose first JSON-LD block is invalid JSON and whose second block is
\* a Recipe-typed object with a name, the URL pipeline returns the record
\* mapped from the second block and no error.
C5_MalformedBlockSkipped ==
  (/\ Extracted
   /\ Len(fetched.page.blocks) >= 2
   /\ fetched.page.blocks[1].t = "invalid"
   /\ IsNamedRecipe(fetched.page.blocks[2])) =>
     /\ result.t = "obj"
     /\ result = parseSchemaRecipe(fetched.page.blocks[2], input.url)

C5_Witness ==
  /\ Extracted
  /\ Len(fetched.page.blocks) >= 2
  /\ fetched.page.blocks[1].t = "invalid"
  /\ IsNamedRecipe(fetched.page.blocks[2])
  /\ result.t = "obj"
  /\ result.name.v # <<>>

Blank(s) == Trim(s) = <<>>

\* C6: in every record returned by any pipeline, no entry of ingredients and
\* no entry of preparationSteps is empty or whitespace-only.
C6_NoBlankEntries ==
  result.t = "obj" =>
    /\ \A k \in 1..Len(result.ingredients.v) : ~Blank(result.ingredients.v[k].rawIngredient.v)
    /\ \A k \in 1..Len(result.preparationSteps.v) : ~Blank(result.preparationSteps.v[k].v)

\* a structured record whose source lists hold blank entries was returned
\* with fewer entries than the source has
C6_Witness ==
  /\ Extracted
  /\ Usable
  /\ IsArray(Get(Found, "recipeIngredient"))
  /\ result.t = "obj"
  /\ Len(result.ingredients.v) > 0
  /\ Len(result.ingredients.v) < Len(Found.recipeIngredient.v)

HeuristicRan == \E k \in 1..Len(extractors) : extractors[k] = "parseHeuristicHtml"

\* C4: when the URL pipeline falls back to the heuristic extractor it returns
\* the heuristic record only if a name was found in the markup and at least
\* one ingredient or step was recovered, and fails with the extraction error
\* in every other case.
C4_HeuristicNeedsNameAndContent ==
  (Extracted /\ HeuristicRan) =>
    result = IF Truthy(extractTitle(fetched.page)) /\ HeuristicUsable(fetched.page)
             THEN parseHeuristicHtml(fetched.page, input.url)
             ELSE ExtractionError

EntityNames == {"amp;", "lt;", "gt;", "quot;", "nbsp;"} \cup NumEnt
HasEntity(s) == \E k \in 1..(Len(s) - 1) : s[k] = "&" /\ s[k + 1] \in EntityNames
HasTag(s) == ReplaceTags(s, <<>>) # s
CleanStr(x) == x.t = "str" => ~HasEntity(x.v) /\ ~HasTag(x.v)

\* C7: no string field of a record returned by any pipeline contains a markup
\* tag or an HTML entity.
C7_EveryStringFieldCleaned ==
  result.t = "obj" =>
    /\ CleanStr(result.name)
    /\ \A k \in 1..Len(result.ingredients.v) : CleanStr(result.ingredients.v[k].rawIngredient)
    /\ \A k \in 1..Len(result.preparationSteps.v) : CleanStr(result.preparationSteps.v[k])
    /\ CleanStr(result.note)
    /\ CleanStr(result.sourceName)
    /\ CleanStr(result.sourceUrl)
    /\ CleanStr(result.prepTime)
    /\ CleanStr(result.cookTime)
    /\ CleanStr(result.servings)

\* C8: normalizing a record the object normalizer returned gives the same
\* record, field by field.
C8_ObjectNormalizerIdempotent ==
  (pc = "done" /\ invoked = <<"object">> /\ result.t = "obj") =>
    normalizeFromObject(result) = result

\* request r has received a response that is not a redirect
Terminal(r) == r.status # 0 /\ ~IsRedirect(r.status, r.loc)
Is2xx(status) == status >= 200 /\ status < 300
SettledByResponse == fetched.t \in {"pending", "ok"} \/ fetched.kind = "http"

InFlight(r) == r.st \in {"waiting", "streaming"}

\* C10: when the fetch timeout elapses the pipeline fails with the timeout
\* error and returns no record, and once it has failed no request of the
\* extraction is in flight.
C10_TimeoutAbortsEverything ==
  /\ fetched = TimeoutError => result = TimeoutError
  /\ result = TimeoutError => \A k \in 1..Len(reqs) : ~InFlight(reqs[k])

\* request r has received a 3xx response that carries a Location header
RedirectResponse(r) == r.status >= 300 /\ r.status < 400 /\ Truthy(r.loc)
NumRedirects == Cardinality({k \in 1..Len(reqs) : RedirectResponse(reqs[k])})
Awaiting == {k \in 1..Len(reqs) : reqs[k].st = "waiting"}

\* C11: the requests of a redirect chain are serialized: a request for hop
\* k+1 exists only once hop k has received its redirect response (and goes to
\* the location of that response), at most one request awaits a response at
\* any time (and it is the last one issued), and a chain of n redirects that
\* ends in a terminal response has issued exactly n+1 requests.
C11_RedirectChainSerialized ==
  /\ \A k \in 1..(Len(reqs) - 1) :
       RedirectResponse(reqs[k]) /\ reqs[k + 1].url = reqs[k].loc
  /\ Cardinality(Awaiting) <= 1
  /\ \A k \in Awaiting : k = Len(reqs)
  /\ (reqs # <<>> /\ reqs[Len(reqs)].status # 0 /\ ~RedirectResponse(reqs[Len(reqs)])) =>
       Len(reqs) = NumRedirects + 1

\* a chain of two redirects ended in a 200 response whose body was read
C11_Witness ==
  /\ Len(reqs) = 3
  /\ NumRedirects = 2
  /\ reqs[3].st = "ended"
  /\ fetched.t = "ok"

OnlyText(in) ==
  in.t = "obj" /\ Absent(in, "url") /\ Absent(in, "recipe") /\ Get(in, "text").t = "text"
BlankText(x) == \A k \in 1..Len(x.lines) : Blank(x.lines[k])

\* C13 as claimed: a descriptor whose only supplied member is a blank text
\* (empty or whitespace-only) fails with the empty-input error.
C13_BlankTextIsEmptyInput ==
  (pc = "done" /\ OnlyText(input) /\ BlankText(input.text)) => result = EmptyInputError

\* C13 amended: a descriptor whose only supplied member is a blank text of at
\* least one character (spaces, newlines) fails with the empty-input error of
\* the text pipeline; the empty string counts as an absent member, and the
\* call fails with the invalid-input error before the text pipeline runs.
C13_BlankNonEmptyTextIsEmptyInput ==
  (pc = "done" /\ OnlyText(input) /\ BlankText(input.text)) =>
    IF input.text.lines = EmptyText
    THEN result = InvalidInputError /\ invoked = <<>>
    ELSE result = EmptyInputError /\ invoked = <<"text">>

\* a text of spaces and newlines only was rejected by the text pipeline
C13_Witness ==
  /\ pc = "done"
  /\ OnlyText(input)
  /\ BlankText(input.text)
  /\ \E k \in 1..Len(input.text.lines) : input.text.lines[k] = <<" ">>
  /\ invoked = <<"text">>
  /\ result = EmptyInputError

\* the trimmed non-empty lines of the text of the descriptor
InputLines == TextLines(input.text.lines)
IngThenSteps(L) ==
  \E i \in 1..Len(L) : \E j \in (i + 1)..Len(L) : IsIngHeader(L[i]) /\ IsStepHeader(L[j])
FirstIng(L) == CHOOSE i \in 1..Len(L) : IsIngHeader(L[i]) /\ \A k \in 1..(i - 1) : ~IsIngHeader(L[k])
NextSteps(L, i) ==
  CHOOSE j \in (i + 1)..Len(L) : IsStepHeader(L[j]) /\ \A k \in (i + 1)..(j - 1) : ~IsStepHeader(L[k])
IngEntries(ls) ==
  LET c == SelectSeq([k \in 1..Len(ls) |-> CleanIngLine(ls[k])], LongerThan1)
  IN [k \in 1..Len(c) |-> RawIng(c[k])]
StepEntries(ls) ==
  LET c == SelectSeq([k \in 1..Len(ls) |-> CleanStepLine(ls[k])], LongerThan5)
  IN [k \in 1..Len(c) |-> Str(c[k])]

\* C14: for a text whose trimmed non-empty lines hold an ingredients header
\* followed later by an instructions header, the ingredients come from the
\* lines between the two headers and from no other line, the steps from the
\* lines after the second header and from no other line, both in the order of
\* the text, and the name is the first line when that line is not a header.
C14_HeadersSplitSections ==
  (pc = "done" /\ invoked = <<"text">> /\ result.t = "obj" /\ IngThenSteps(InputLines)) =>
    /\ result.ingredients =
         Arr(IngEntries(SubSeq(InputLines, FirstIng(InputLines) + 1,
                               NextSteps(InputLines, FirstIng(InputLines)) - 1)))
    /\ result.preparationSteps =
         Arr(StepEntries(SubSeq(InputLines, NextSteps(InputLines, FirstIng(InputLines)) + 1,
                                Len(InputLines))))
    /\ (~IsIngHeader(InputLines[1]) /\ ~IsStepHeader(InputLines[1])) =>
         result.name = Str(InputLines[1])

\* the Recipe-typed entry of one parsed block, in the order graph members,
\* array entries, the object itself; Undef when the block holds none
TypedEntry(x) == x.t = "obj" /\ IsRecipeTyped(x)
FirstTyped(items) ==
  IF \E k \in 1..Len(items) : TypedEntry(items[k])
  THEN items[CHOOSE k \in 1..Len(items) :
               TypedEntry(items[k]) /\ \A m \in 1..(k - 1) : ~TypedEntry(items[m])]
  ELSE Undef
EntryOf(b) ==
  IF b.t = "obj" /\ IsArray(Get(b, "graph")) /\ FirstTyped(Get(b, "graph").v) # Undef
  THEN FirstTyped(Get(b, "graph").v)
  ELSE IF IsArray(b) /\ FirstTyped(b.v) # Undef THEN FirstTyped(b.v)
  ELSE IF TypedEntry(b) THEN b
  ELSE Undef
FirstEntry(blocks) ==
  IF \E k \in 1..Len(blocks) : EntryOf(blocks[k]) # Undef
  THEN EntryOf(blocks[CHOOSE k \in 1..Len(blocks) :
                        EntryOf(blocks[k]) # Undef /\ \A m \in 1..(k - 1) : EntryOf(blocks[m]) = Undef])
  ELSE Null

\* C15: the structured-data extractor returns the first Recipe-typed entry of
\* the blocks in document order (within a block: among the graph members, then
\* among the entries of a top-level array, then the object itself), and null
\* exactly when no block holds a Recipe-typed entry in any of the three shapes.
C15_FirstRecipeEntryFound ==
  Extracted =>
    /\ Found = FirstEntry(fetched.page.blocks)
    /\ (FirstEntry(fetched.page.blocks) = Null) <=> (extractors = <<"extractJsonLd", "parseHeuristicHtml">>)

\* a duration of the form PT, PT<h>H, PT<m>M or PT<h>H<m>M
PTForm(s) ==
  /\ Len(s) \in {2, 4, 6}
  /\ s[1] = "P" /\ s[2] = "T"
  /\ Len(s) = 4 => (s[3] \in DigitRuns /\ s[4] \in {"H", "M"})
  /\ Len(s) = 6 => (s[3] \in DigitRuns /\ s[4] = "H" /\ s[5] \in DigitRuns /\ s[6] = "M")
DigitValue(d) == CASE d = "0" -> 0 [] d = "1" -> 1 [] d = "30" -> 30
HourPart(s) == IF Len(s) >= 4 /\ s[4] = "H" THEN DigitValue(s[3]) ELSE 0
MinutePart(s) ==
  IF Len(s) = 6 THEN DigitValue(s[5])
  ELSE IF Len(s) = 4 /\ s[4] = "M" THEN DigitValue(s[3]) ELSE 0
MinutesText(d) ==
  IF d.t \in {"undef", "null"} THEN Null
  ELSE IF 60 * HourPart(d.v) + MinutePart(d.v) > 0
       THEN Str(<<ToString(60 * HourPart(d.v) + MinutePart(d.v)), " ", "min">>)
  ELSE Null
InDurationForm(d) == d.t \in {"undef", "null"} \/ (d.t = "str" /\ PTForm(d.v))

\* C16: in a record mapped from structured data, a duration PT<h>H<m>M (each
\* component optional) becomes "<60*h+m> min" when 60*h+m > 0, and null when
\* the total is 0 or the duration is absent.
C16_DurationInMinutes ==
  (Extracted /\ Usable) =>
    /\ InDurationForm(Get(Found, "prepTime")) => result.prepTime = MinutesText(Get(Found, "prepTime"))
    /\ InDurationForm(Get(Found, "cookTime")) => result.cookTime = MinutesText(Get(Found, "cookTime"))

\* PT1H30M was mapped to "90 min" and PT0H0M to null
C16_Witness ==
  /\ Extracted
  /\ Usable
  /\ Get(Found, "prepTime") = Str(<<"P", "T", "1", "H", "30", "M">>)
  /\ Get(Found, "cookTime") = Str(<<"P", "T", "0", "H", "0", "M">>)
  /\ result.prepTime = Str(<<"90", " ", "min">>)
  /\ result.cookTime = Null

StepFields == <<"preparationSteps", "steps", "instructions">>
ArrayOrAbsent(x) == IsArray(x) \/ x.t \in {"undef", "null"}
Given(r) == {k \in 1..3 : ~Absent(r, StepFields[k])}
FirstGiven(r) == Get(r, StepFields[CHOOSE k \in Given(r) : \A m \in Given(r) : k <= m])
CleanedEntries(a) == SelectSeq([k \in 1..Len(a) |-> Str(cleanText(String(a[k])))], NonEmptyStr)

\* C17: the object normalizer takes the steps from the first of the fields
\* preparationSteps, steps, instructions that is not absent (each field being
\* an array or absent): the entries of that field alone, stringified and
\* cleaned, in order; no steps when all three are absent.
C17_StepsFromFirstGivenField ==
  (/\ pc = "done" /\ invoked = <<"object">> /\ result.t = "obj"
   /\ \A k \in 1..3 : ArrayOrAbsent(Get(input.recipe, StepFields[k]))) =>
     result.preparationSteps =
       Arr(IF Given(input.recipe) = {} THEN <<>> ELSE CleanedEntries(FirstGiven(input.recipe).v))

\* preparationSteps is null, steps and instructions are both given: the steps
\* of the record are those of the field steps
C17_Witness ==
  /\ pc = "done"
  /\ invoked = <<"object">>
  /\ Get(input.recipe, "preparationSteps") = Null
  /\ IsArray(Get(input.recipe, "steps"))
  /\ IsArray(Get(input.recipe, "instructions"))
  /\ result.t = "obj"
  /\ result.preparationSteps = Arr(CleanedEntries(input.recipe.steps.v))
  /\ result.preparationSteps # Arr(CleanedEntries(input.recipe.instructions.v))
  /\ Len(result.preparationSteps.v) = 2

\* the heuristic record was returned
HeuristicReturned == Extracted /\ HeuristicRan /\ result.t = "obj"
Matched(els, classes) == \E k \in 1..Len(els) : els[k].cls \in classes
AcceptedIng(classes) == SelectSeq(PatternTexts(fetched.page.ingEls, classes), IngOk)
AcceptedStep(classes) == SelectSeq(PatternTexts(fetched.page.stepEls, classes), StepOk)
P1 == {"specific"}
P2 == {"specific", "generic"}

\* C18 as claimed: the first pattern that matches at least one element wins:
\* the result is the accepted fragments of that pattern alone, and the second
\* pattern is consulted only if the first matched nothing.
C18_FirstMatchingPatternWins ==
  HeuristicReturned =>
    /\ result.ingredients =
         Arr(AsRawIngredients(IF Matched(fetched.page.ingEls, P1) THEN AcceptedIng(P1)
                              ELSE AcceptedIng(P2)))
    /\ result.preparationSteps =
         Arr(IF Matched(fetched.page.stepEls, P1) THEN AcceptedStep(P1) ELSE AcceptedStep(P2))

\* C18 amended: the first pattern with at least one accepted fragment wins:
\* the result is the accepted fragments of that pattern alone, the second
\* pattern is consulted only if the first yielded no accepted fragment, and
\* the accepted fragments of the two patterns are never concatenated.
C18_FirstAcceptedPatternWins ==
  HeuristicReturned =>
    /\ result.ingredients =
         Arr(AsRawIngredients(IF AcceptedIng(P1) # <<>> THEN AcceptedIng(P1) ELSE AcceptedIng(P2)))
    /\ result.preparationSteps =
         Arr(IF AcceptedStep(P1) # <<>> THEN AcceptedStep(P1) ELSE AcceptedStep(P2))

\* both patterns have accepted fragments and the record holds those of the
\* first pattern only
C18_Witness ==
  /\ HeuristicReturned
  /\ AcceptedIng(P1) # <<>>
  /\ Len(AcceptedIng(P2)) > Len(AcceptedIng(P1))
  /\ result.ingredients = Arr(AsRawIngredients(AcceptedIng(P1)))
  /\ AcceptedStep(P1) # <<>>
  /\ Len(AcceptedStep(P2)) > Len(AcceptedStep(P1))
  /\ result.preparationSteps = Arr(AcceptedStep(P1))

\* two calls were given the same input (and, for a url, the same fetch outcome)
SameInput(a, b) == a.in = b.in /\ (Route(a.in) = "url" => a.net = b.net)

ItemOps == {"addItem", "removeItem", "deleteItem"}
Count(items, name) == Cardinality({k \in 1..Len(items) : items[k].name = name})
StateOf(items, name) ==
  IF getItemByName(items, name) = 0 THEN "absent"
  ELSE IF items[getItemByName(items, name)].checked THEN "checked"
  ELSE "unchecked"

\* the target list as the client holds it
TargetItems == lists[cl.target]

\* C19: on a connected client, for any item name: an addItem that returns
\* leaves the item present and unchecked whatever its prior state, with as
\* many items of that name as before or one if there was none; a removeItem
\* that returns leaves a present item present and checked; a deleteItem that
\* returns leaves a present item absent; removeItem and deleteItem on an
\* absent item fail with a "not found" error, call the service not at all and
\* leave the list unchanged.
C19_ItemLifeCycle ==
  (last.op \in ItemOps /\ last.err # "not-connected") =>
    /\ (last.op = "addItem" /\ last.err = "none") =>
         /\ StateOf(TargetItems, last.name) = "unchecked"
         /\ Count(TargetItems, last.name) =
              IF Count(last.before, last.name) = 0 THEN 1 ELSE Count(last.before, last.name)
    /\ (last.op = "removeItem" /\ StateOf(last.before, last.name) # "absent" /\ last.err = "none") =>
         /\ StateOf(TargetItems, last.name) = "checked"
         /\ Count(TargetItems, last.name) = Count(last.before, last.name)
    /\ (last.op = "deleteItem" /\ StateOf(last.before, last.name) # "absent" /\ last.err = "none") =>
         StateOf(TargetItems, last.name) = "absent"
    /\ (last.op \in {"removeItem", "deleteItem"} /\ StateOf(last.before, last.name) = "absent") =>
         /\ last.err = "not-found"
         /\ last.calls = 0
         /\ TargetItems = last.before

\* addItem on a checked item of a list of two items has left it unchecked,
\* and the list still has two items
C19_Witness ==
  /\ last.op = "addItem"
  /\ last.err = "none"
  /\ StateOf(last.before, last.name) = "checked"
  /\ Len(last.before) = 2
  /\ StateOf(TargetItems, last.name) = "unchecked"
  /\ Len(TargetItems) = 2

\* C20: on a client without target list (never connected, or disconnected),
\* addItem, removeItem, deleteItem and getItems fail with the error "...
\* Call connect() first.", make no call to the AnyList service and leave the
\* client, its lists and the lists at the service unchanged.
C20_NotConnectedFailsWithoutEffect ==
  [][(cl.target = "null" /\ last'.op \in ItemOps \cup {"getItems"}) =>
       /\ last'.err = "not-connected"
       /\ last'.calls = 0
       /\ cl' = cl
       /\ lists' = lists
       /\ remote' = remote]_vars

\* getItems has failed on a client that was connected and then disconnected
C20_Witness ==
  /\ last.op = "getItems"
  /\ last.err = "not-connected"
  /\ cl = NewClient
  /\ lists["L1"] # <<>>

\* C21: connect(L) on a client connected to list L succeeds without logging in
\* again (no call to the service, hence no new AnyList client) and leaves the
\* client and the target list as they are; connect(L2) for another existing
\* list keeps the authenticated client, logs in no second time and changes
\* only the target list, to L2.
C21_ReconnectKeepsClient ==
  [][(cl.client = "authed" /\ cl.target \in ListNames
        /\ last'.op = "connect" /\ last'.name \in ListNames) =>
       /\ last'.err = "none"
       /\ last'.calls = 0
       /\ cl'.client = cl.client
       /\ cl'.target = last'.name
       /\ (last'.name = cl.target => cl' = cl)
       /\ lists' = lists
       /\ remote' = remote]_vars

\* a client that holds items of L1 has been switched to L2 without a call to
\* the service
C21_Witness ==
  /\ last.op = "connect"
  /\ last.name = "L2"
  /\ last.err = "none"
  /\ last.calls = 0
  /\ cl = [client |-> "authed", target |-> "L2"]
  /\ lists["L1"] # <<>>

\* the message msg is part of the text
Contains(text, msg) ==
  \E i \in 1..(Len(text) + 1) :
    i + Len(msg) - 1 <= Len(text) /\ SubSeq(text, i, i + Len(msg) - 1) = msg
KnownActions ==
  {"add_item", "check_item", "delete_item", "list_items", "create", "delete",
   "create_event", "delete_event"}

\* C22: a tool call returns a success response or an error response, never
\* an undefined result; a failure inside the handler (an error thrown by
\* connect, by an item or recipe operation, by the elicitation of a missing
\* parameter) and an unknown action are returned as an error response whose
\* text contains the error message.
C22_FailuresAreErrorResponses ==
  tc.tool # "none" =>
    /\ tc.resp.kind \in {"text", "error"}
    /\ (tc.thrown # <<>> => tc.resp.kind = "error" /\ Contains(tc.resp.text, tc.thrown))
    /\ (tc.action \notin KnownActions => tc.resp.kind = "error")

\* the name recipes create has worked with: the parameter, or the value
\* elicited for it
NameUsed == IF tc.arg # "" THEN tc.arg ELSE tc.elicit.value
CreateOfExisting ==
  /\ tc.tool = "recipes"
  /\ tc.action = "create"
  /\ NameUsed # "none"
  /\ FindRecipeByName(tc.before, NameUsed) # 0
Confirmed == tc.second.supported /\ tc.second.action = "accept" /\ tc.second.value = "true"
AskedToConfirm == tc.thrown \notin {ConnectFailed, <<"Failed to get recipes">>}

\* C29: recipes create for a name that exists, whatever the case: without a
\* confirmation (declined, cancelled, answered no, no elicitation support)
\* the recipes of the account are as before and no operation is called; with
\* a confirmation the existing recipe is deleted and then the new one is
\* created; and in every outcome the account still has a recipe of that name.
C29_OverwriteKeepsARecipe ==
  CreateOfExisting =>
    /\ (AskedToConfirm /\ ~Confirmed) => (recipes = tc.before /\ tc.ops = <<>>)
    /\ (AskedToConfirm /\ Confirmed /\ tc.thrown = <<>>) =>
         /\ tc.ops = <<Called("deleteRecipe", tc.before[FindRecipeByName(tc.before, NameUsed)]),
                       Called("createRecipe", NameUsed)>>
         /\ Len(recipes) = Len(tc.before)
    /\ FindRecipeByName(recipes, NameUsed) # 0

\* the parameter an action requires
RequiredParam ==
  CASE tc.action \in {"add_item", "check_item", "delete_item"} -> "name"
    [] tc.action = "create_event" -> "date"
    [] tc.action = "delete_event" -> "event_id"
    [] OTHER -> ""
\* the action was called without its required parameter and has asked for it
AskedForParam ==
  /\ tc.tool \in {"shopping", "meal_plan"}
  /\ RequiredParam # ""
  /\ tc.arg = ""
  /\ tc.thrown # ConnectFailed
Supplied == tc.elicit.supported /\ tc.elicit.action = "accept" /\ tc.elicit.value # "none"
ItemOrEventOps ==
  {"addItem", "removeItem", "deleteItem", "createMealPlanEvent", "deleteMealPlanEvent"}

\* C30: an action called without its required parameter (name of add_item,
\* check_item and delete_item, date of create_event, event_id of
\* delete_event): if the client supplies the value through elicitation, the
\* operation is called with exactly that value; if elicitation is
\* unsupported, declined or cancelled, the response is an error that names
\* the parameter and no operation is called.
C30_ElicitedValueIsUsed ==
  AskedForParam =>
    /\ Supplied =>
         \A k \in 1..Len(tc.ops) : tc.ops[k].op \in ItemOrEventOps => tc.ops[k].arg = tc.elicit.value
    /\ ~Supplied =>
         /\ tc.resp.kind = "error"
         /\ Contains(tc.resp.text, <<RequiredParam>>)
         /\ tc.ops = <<>>

\* the sessions that are initialized and whose transport is not closed
OpenSessions == {s \in DOMAIN sessions : sessions[s] = "open"}

\* C23: a transport is stored under a session id exactly from the
\* initialization of its session until it is closed; a POST with a stored
\* session id is handled by the transport of that session; a POST without
\* session id creates a session only if it is an initialize request; every
\* other POST, and every GET or DELETE with a missing or unstored session id,
\* is answered with status 400 and reaches no transport.
C23_SessionMap ==
  /\ DOMAIN transports = OpenSessions
  /\ \A s \in DOMAIN transports : transports[s] = s
  /\ (http.method = "POST" /\ http.stored) => http.by = http.sid
  /\ http.created # "none" => (http.method = "POST" /\ http.sid = "" /\ http.init)
  /\ (http.method = "POST" /\ ~http.stored /\ ~(http.sid = "" /\ http.init)) =>
       (http.status = 400 /\ http.by = "none")
  /\ (http.method \in {"GET", "DELETE"} /\ ~http.stored) =>
       (http.status = 400 /\ http.by = "none")

\* the events stored after the event id, for the same stream, in the order
\* in which they were stored
RECURSIVE StoredAfter(_, _, _)
StoredAfter(evs, lastEventId, found) ==
  IF evs = <<>> THEN <<>>
  ELSE IF Head(evs) = lastEventId THEN StoredAfter(Tail(evs), lastEventId, TRUE)
  ELSE (IF found /\ Head(evs).stream = lastEventId.stream THEN <<Head(evs)>> ELSE <<>>)
       \o StoredAfter(Tail(evs), lastEventId, found)

\* C24: a replay after a last event id sends exactly the events stored for
\* the same stream after that event, each once and in the order in which they
\* were stored, no event of another stream and none stored at or before the
\* last one; after an unknown event id it sends nothing.
C24_ReplayInStorageOrder ==
  replay.after # NoEventId =>
    replay.sent = IF Has(events, replay.after) THEN StoredAfter(events, replay.after, FALSE)
                  ELSE <<>>

\* C28: an addItem that returned without error has its change saved at the
\* service: the item is there, unchecked; when the service refuses the save,
\* addItem does not return normally.
C28_SuccessMeansSaved ==
  (last.op = "addItem" /\ last.err = "none" /\ cl.target # "null") =>
    StateOf(remote[cl.target], last.name) = "unchecked"

\* C25: the item operation of a shopping call made with list_name L reads
\* or modifies list L and no other, whatever other calls are in progress.
C25_OwnList ==
  \A h \in HandlerIds : hs.calls[h].on # "none" => hs.calls[h].on = hs.calls[h].list

\* C26: add_item calls running together for a name the list does not hold
\* never leave the list with two items of that name.
C26_NoDuplicate ==
  \A l \in ListNames : Count(lists[l], HandlerItem) <= 1 /\ Count(remote[l], HandlerItem) <= 1

\* C27: whenever connect looks up the target list, its client has logged
\* in and loaded the lists; and whenever targetList is set, the client is
\* authenticated and targetList is the list of the last connect that succeeded.
C27_LookupOnAuthenticated ==
  /\ \A h \in HandlerIds : hs.calls[h].seen # "none" => hs.calls[h].seen = "authed"
  /\ cl.target # "null" => cl.client = "authed" /\ cl.target = hs.connected

====
